---- MODULE Spec2Model ----
(***************************************************************************)
(* Model of the stream relay of the music backend:                         *)
(*   app/api/v1/endpoints/music.py  (proxy_stream, segment_proxy)          *)
(*   app/services/music_service.py  (get_stream_info, track_playback)      *)
(*   app/core/cache.py              (RedisCache)                           *)
(* Text is modelled as sequences of one-character strings, so that         *)
(* splitlines, strip, quote and unquote are computed character by          *)
(* character.                                                              *)
(***************************************************************************)
EXTENDS Integers, Sequences, FiniteSets, TLC

\* ------------------------------------------------------------------ bounds
\* longest upstream playlist text enumerated by the rewriter specification
MaxLen == 4
\* rows the history table may hold
MaxHistory == 2

\* the clock stops at this many seconds
MaxTime == 3600

\* rows the playlist_songs table may hold
MaxSongs == 3

\* most results the upstream holds for a query
MaxResults == 52

\* pages a client follows
MaxPages == 5

\* formats in the list yt_dlp extracted
MaxFormats == 3

\* ------------------------------------------------------------- text helpers
\* characters the enumerated playlists are made of
Alphabet == {"#", " ", "\n", "\r", "%", "2", "s"}

Texts == UNION {[1..n -> Alphabet] : n \in 0..MaxLen}

\* str.strip() removes these from both ends
Whitespace == {" ", "\t", "\n", "\r"}

\* urllib.parse.quote never encodes these (letters, digits and "_.-~")
Unreserved ==
  {"a", "b", "c", "d", "e", "f", "g", "h", "i", "j", "k", "l", "m", "n", "o",
   "p", "q", "r", "s", "t", "u", "v", "w", "x", "y", "z",
   "0", "1", "2", "3", "4", "5", "6", "7", "8", "9", "_", ".", "-", "~"}

\* the two upper-case hex digits of the UTF-8 byte of a reserved character
PctCode(c) ==
  CASE c = " "  -> <<"2", "0">>
    [] c = "\"" -> <<"2", "2">>
    [] c = "#"  -> <<"2", "3">>
    [] c = "%"  -> <<"2", "5">>
    [] c = "&"  -> <<"2", "6">>
    [] c = "/"  -> <<"2", "F">>
    [] c = ":"  -> <<"3", "A">>
    [] c = "="  -> <<"3", "D">>
    [] c = "?"  -> <<"3", "F">>
    [] c = "\n" -> <<"0", "A">>
    [] c = "\r" -> <<"0", "D">>
    [] c = "\t" -> <<"0", "9">>

Reserved == {" ", "\"", "#", "%", "&", "/", ":", "=", "?", "\n", "\r", "\t"}

\* quote() with '%' left as it is
RECURSIVE quote_percent_safe(_)
quote_percent_safe(s) ==
  IF s = <<>> THEN <<>>
  ELSE (IF Head(s) \in Unreserved \cup {"%"} THEN <<Head(s)>>
        ELSE <<"%">> \o PctCode(Head(s))) \o quote_percent_safe(Tail(s))

RECURSIVE quote(_)
quote(s) ==
  IF s = <<>> THEN <<>>
  ELSE (IF Head(s) \in Unreserved THEN <<Head(s)>>
        ELSE <<"%">> \o PctCode(Head(s))) \o quote(Tail(s))

\* the character a %XX escape stands for, "" when XX is no modelled code
PctChar(hi, lo) ==
  IF \E c \in Reserved : PctCode(c) = <<hi, lo>>
  THEN CHOOSE c \in Reserved : PctCode(c) = <<hi, lo>>
  ELSE ""

RECURSIVE unquote(_)
unquote(s) ==
  IF s = <<>> THEN <<>>
  ELSE IF Head(s) = "%" /\ Len(s) >= 3 /\ PctChar(s[2], s[3]) # ""
       THEN <<PctChar(s[2], s[3])>> \o unquote(SubSeq(s, 4, Len(s)))
       ELSE <<Head(s)>> \o unquote(Tail(s))

RECURSIVE lstrip(_)
lstrip(s) ==
  IF s # <<>> /\ Head(s) \in Whitespace THEN lstrip(Tail(s)) ELSE s

RECURSIVE rstrip(_)
rstrip(s) ==
  IF s # <<>> /\ s[Len(s)] \in Whitespace
  THEN rstrip(SubSeq(s, 1, Len(s) - 1)) ELSE s

strip(s) == rstrip(lstrip(s))

\* str.splitlines(): breaks at "\n", "\r" and "\r\n"; no final empty line
RECURSIVE SplitFrom(_, _, _, _)
SplitFrom(t, i, cur, acc) ==
  IF i > Len(t) THEN (IF cur = <<>> THEN acc ELSE Append(acc, cur))
  ELSE IF t[i] = "\r" /\ i < Len(t) /\ t[i + 1] = "\n"
       THEN SplitFrom(t, i + 2, <<>>, Append(acc, cur))
  ELSE IF t[i] \in {"\n", "\r"}
       THEN SplitFrom(t, i + 1, <<>>, Append(acc, cur))
  ELSE SplitFrom(t, i + 1, Append(cur, t[i]), acc)

splitlines(t) == SplitFrom(t, 1, <<>>, <<>>)

\* "\n".join(lines)
RECURSIVE join(_)
join(lines) ==
  IF lines = <<>> THEN <<>>
  ELSE IF Len(lines) = 1 THEN lines[1]
  ELSE lines[1] \o <<"\n">> \o join(Tail(lines))

\* s.startswith(p)
startswith(s, p) == Len(s) >= Len(p) /\ SubSeq(s, 1, Len(p)) = p

\* p in s
RECURSIVE contains(_, _)
contains(s, p) ==
  IF Len(s) < Len(p) THEN FALSE
  ELSE startswith(s, p) \/ contains(Tail(s), p)

\* -------------------------------------------------------- manifest rewriter
QueryU == <<"?", "u", "=">>

\* the loop body appending the stripped line s where the code appends line
RewriteLine_stripped(segment_base, line) ==
  LET s == strip(line)
  IN  IF s = <<>> \/ startswith(s, <<"#">>)
      THEN s
      ELSE segment_base \o QueryU \o quote(s)

\* one iteration of the loop over playlist_text.splitlines()
RewriteLine(segment_base, line) ==
  LET s == strip(line)
  IN  IF s = <<>> \/ startswith(s, <<"#">>)
      THEN line
      ELSE segment_base \o QueryU \o quote(s)

RewriteLines(segment_base, playlist_text) ==
  LET lines == splitlines(playlist_text)
  IN  [i \in 1..Len(lines) |-> RewriteLine(segment_base, lines[i])]

RewritePlaylist(segment_base, playlist_text) ==
  join(RewriteLines(segment_base, playlist_text))

\* request.url_for("segment_proxy", video_id=video_id); the scheme and host
\* of the service are left out
SegmentBase(video_id) == <<"/", "s", "e", "g", "/">> \o video_id

\* the value of the query parameter u of a rewritten line, percent-decoded
\* as the framework decodes the query string of GET /stream/segment/{id}
RECURSIVE AfterQueryU(_)
AfterQueryU(line) ==
  IF line = <<>> THEN <<>>
  ELSE IF startswith(line, QueryU) THEN SubSeq(line, 4, Len(line))
  ELSE AfterQueryU(Tail(line))

ParamU(line) == unquote(AfterQueryU(line))

IsRelayUrl(segment_base, line) == startswith(line, segment_base \o QueryU)

VARIABLES
  req,       \* per client request: handler position, inputs, upstream
             \* exchanges and what the client has received so far
  cache,     \* RedisCache entries "stream:{video_id}"
  history,   \* rows of the History table, in insertion order
  player,    \* the rewritten playlist a client last received
  running,   \* the connection whose handler is inside a synchronous call on
             \* the event loop thread, 0 when the loop is free
  now,       \* seconds since start (cache TTL specification)
  expires,   \* per "stream:{video_id}" key: the time Redis drops the entry
  resolved_at, \* per key: when the resolver produced the cached descriptor
  served_age,  \* age of the descriptor get_stream_info returned last
  playlist_text, rewritten_lines, rewritten_playlist, rw_pc,
  playlists,       \* rows of the playlists table, by id
  playlist_songs,  \* rows of the playlist_songs table, in insertion order
  pl,              \* per database session: the playlist request it serves
  song_cache,      \* RedisCache entries "song_info:{video_id}"
  si,              \* SongInfoService and the get_song_info_async call it runs
  srch,            \* a client paging through GET /search
  kv,              \* RedisCache entries "song:{id}" and "search:{q}:{n}:initial"
  ca,              \* the last call of a cached MusicService method
  sel              \* a call of _select_best_audio_stream: input and result

rwvars == <<playlist_text, rewritten_lines, rewritten_playlist, rw_pc>>

relayvars == <<req, cache, history, player>>

ttlvars == <<now, expires, resolved_at, served_age>>

plvars == <<playlists, playlist_songs, pl>>

\* the state of the services outside the relay
sivars == <<song_cache, si>>

cavars == <<kv, ca>>

othervars == <<plvars, sivars, srch, cavars, sel>>

\* what the relay actions of one request leave alone
sidevars == <<rwvars, ttlvars, running, othervars>>

vars == <<req, cache, history, player, running,
          now, expires, resolved_at, served_age,
          playlist_text, rewritten_lines, rewritten_playlist, rw_pc,
          playlists, playlist_songs, pl, song_cache, si, srch, kv, ca, sel>>

\* ---------------------------------------------------------- playlist data
PlaylistIds == {1}

Sessions == {1, 2}

SongIds == {"a", "b"}

PlaylistNames == {"mix", "road"}

\* no row of the playlists table has this id
NoRow == [user_id |-> 0, name |-> ""]

IdlePl ==
  [op |-> "", pc |-> "idle", token |-> "", user |-> 0, playlist_id |-> 0,
   video_id |-> "", status |-> 0, detail |-> ""]

\* ------------------------------------------------------------ search data
\* results one call of ytmusic.search is asked for
batch_size == 50

\* the first n results the upstream holds for the query
Upstream(n) == [i \in 1..n |-> i]

\* no continuation token (None)
NoCont == <<"N", "o", "n", "e">>

Digits == <<"0", "1", "2", "3", "4", "5", "6", "7", "8", "9">>

DigitValue(c) == (CHOOSE i \in 1..10 : Digits[i] = c) - 1

IsDigit(c) == \E i \in 1..10 : Digits[i] = c

\* str(n) for n >= 0
RECURSIVE str(_)
str(n) == IF n < 10 THEN <<Digits[n + 1]>>
          ELSE str(n \div 10) \o <<Digits[(n % 10) + 1]>>

RECURSIVE DecimalValue(_)
DecimalValue(t) ==
  IF t = <<>> THEN 0
  ELSE 10 * DecimalValue(SubSeq(t, 1, Len(t) - 1)) + DigitValue(t[Len(t)])

\* the page a continuation token names: int(continuation), 0 when there is
\* no token, an empty one, or one int() rejects
PageOf(continuation) ==
  IF continuation = NoCont \/ continuation = <<>> THEN 0
  ELSE IF \A i \in 1..Len(continuation) : IsDigit(continuation[i])
  THEN DecimalValue(continuation)
  ELSE 0

\* all_results[start_index:end_index]
Slice(all_results, start_index, end_index) ==
  SubSeq(all_results, start_index + 1,
         IF end_index < Len(all_results) THEN end_index ELSE Len(all_results))

\* ytmusic.search(query, filter="songs", limit=batch_size): the head of
\* the upstream list, whichever batch is being fetched
FetchBatch(n) ==
  SubSeq(Upstream(n), 1, IF n < batch_size THEN n ELSE batch_size)

\* the batches added to all_results: the loop stops after a short batch
RECURSIVE FetchBatches(_, _)
FetchBatches(n, num_batches) ==
  IF num_batches = 0 THEN <<>>
  ELSE IF Len(FetchBatch(n)) < batch_size THEN FetchBatch(n)
  ELSE FetchBatch(n) \o FetchBatches(n, num_batches - 1)

\* YTMusicClient.search: the page and the next continuation token
search(n, limit, continuation) ==
  LET page == PageOf(continuation)
      start_index == page * limit
      total_needed == start_index + limit
      num_batches == (total_needed + batch_size - 1) \div batch_size
      all_results == FetchBatches(n, num_batches)
      end_index == start_index + limit
      results == Slice(all_results, start_index, end_index)
  IN  [results |-> results,
       continuation |-> IF Len(results) = limit /\ Len(all_results) >= end_index
                        THEN str(page + 1)
                        ELSE NoCont]

NewSearch ==
  [pc |-> "new", n |-> 0, limit |-> 0, sent |-> NoCont, page |-> 0,
   results |-> <<>>, continuation |-> NoCont, seen |-> <<>>, pages |-> 0]

\* ------------------------------------------------- stream selection data
\* the formats yt_dlp may list; a missing key reads as "" or 0
FormatPool ==
  { [url |-> "f1", vcodec |-> "none", protocol |-> "https", ext |-> "m4a",
     abr |-> 128, tbr |-> 0],
    [url |-> "f2", vcodec |-> "none", protocol |-> "https", ext |-> "webm",
     abr |-> 160, tbr |-> 0],
    [url |-> "f3", vcodec |-> "none", protocol |-> "http", ext |-> "webm",
     abr |-> 0, tbr |-> 192],
    [url |-> "f4", vcodec |-> "none", protocol |-> "https", ext |-> "MP3",
     abr |-> 320, tbr |-> 64],
    [url |-> "f5", vcodec |-> "none", protocol |-> "m3u8_native",
     ext |-> "mp4", abr |-> 0, tbr |-> 96],
    [url |-> "f6", vcodec |-> "none", protocol |-> "m3u8", ext |-> "",
     abr |-> 128, tbr |-> 0],
    [url |-> "f7", vcodec |-> "avc1", protocol |-> "https", ext |-> "mp4",
     abr |-> 0, tbr |-> 900],
    [url |-> "f8", vcodec |-> "none", protocol |-> "https", ext |-> "M4A",
     abr |-> 0, tbr |-> 0] }

FormatLists ==
  UNION {[1..k -> FormatPool] : k \in 0..MaxFormats}

\* _select_best_audio_stream returned None
NoStream ==
  [url |-> "", top_url |-> <<>>, ext |-> "", mime_type |-> "",
   protocol |-> "", is_hls |-> FALSE, found |-> FALSE]

NoSelection == [pc |-> "new", formats |-> <<>>,
                top |-> [url |-> <<>>, protocol |-> "", ext |-> ""],
                result |-> NoStream]

\* str.lower() on the values the model uses
lower(x) ==
  CASE x = "MP3" -> "mp3"
    [] x = "M4A" -> "m4a"
    [] x = "M3U8_NATIVE" -> "m3u8_native"
    [] OTHER -> x

\* ------------------------------------------------------ cached method data
\* settings.CACHE_EXPIRE_SECONDS
CACHE_EXPIRE_SECONDS == 3600

\* the expiry passed to every set_cache of a stream descriptor, in seconds
TTL == 900

SongVideoIds == {"s1", "s2"}

Queries == {"q"}

CachedLimits == {2}

CachedSongIds == {"s1"}

\* f"song:{video_id}"
SongKey(video_id) == "song:" \o video_id

\* f"search:{query}:{limit}:{continuation or 'initial'}" of a call without
\* a continuation token
SearchKey(query, limit) ==
  "search:" \o query \o ":" \o ToString(limit) \o ":initial"

CacheKeys ==
  {SongKey(v) : v \in CachedSongIds}
    \cup {SearchKey(q, l) : q \in Queries, l \in CachedLimits}

\* the key holds nothing
NoEntry == [value |-> [nothing |-> TRUE], expires_at |-> 0]

\* ytmusic.get_song found nothing (None)
NoSong == [title |-> "-"]

\* what ytmusic.get_song may answer for a video id
SongAnswers == {NoSong, [title |-> "T1"], [title |-> "T2"]}

NoCall ==
  [fn |-> "", key |-> "", continuation |-> NoCont, hit |-> FALSE,
   calls |-> 0, returned |-> [nothing |-> TRUE]]

\* ---------------------------------------------------------- song info data
ArtistHints == {"", "A"}

\* what a provider's get_metadata returns: None, or credits in the format
\* with singer, music_director and year at the root
NoMeta == [singer |-> "-", music_director |-> "-", year |-> "-"]

AiData ==
  { NoMeta,
    [singer |-> "S", music_director |-> "", year |-> ""],
    [singer |-> "", music_director |-> "M", year |-> "1999"] }

NoSongInfo ==
  [singer |-> "", photo |-> FALSE, music_director |-> "", year |-> ""]

NewSongInfoService ==
  [pc |-> "new", use_web_automation |-> FALSE, video_id |-> "",
   artist |-> "", tried |-> <<>>, ai_data |-> NoMeta, built |-> FALSE,
   response |-> NoSongInfo]

InitOther ==
  /\ playlists = [p \in PlaylistIds |-> NoRow]
  /\ playlist_songs = <<>>
  /\ pl = [s \in Sessions |-> IdlePl]
  /\ song_cache = [v \in SongVideoIds |-> NoSongInfo]
  /\ si = NewSongInfoService
  /\ srch = NewSearch
  /\ kv = [k \in CacheKeys |-> NoEntry]
  /\ ca = NoCall
  /\ sel = NoSelection

\* ------------------------------------------------------------- relay data
Absent == "-"

\* the client connections; each carries one request at a time
Connections == {1}

VideoIds == {<<"v", "1">>}

\* current_user.id of the caller, 0 for an anonymous caller (user_id None)
UserIds == {0, 1}

\* the bearer token of a request: none, one that does not decode, one of
\* the user "alice", one of a user that is not in the table
NoToken == ""

Tokens == {NoToken, "garbage", "jwt-alice", "jwt-nobody"}

\* decode_access_token(token).get("sub"), "" when it raises or has no sub
TokenSub(token) ==
  CASE token = "jwt-alice" -> "alice"
    [] token = "jwt-bob" -> "bob"
    [] token = "jwt-nobody" -> "nobody"
    [] OTHER -> ""

\* the users table: username -> id
UserTable == [name \in {"alice", "bob"} |-> IF name = "alice" THEN 1 ELSE 2]

\* dependencies.get_current_user: the id of the user, 0 for None
get_current_user(token) ==
  IF token = NoToken THEN 0
  ELSE IF TokenSub(token) = "" THEN 0
  ELSE IF TokenSub(token) \in DOMAIN UserTable THEN UserTable[TokenSub(token)]
  ELSE 0

\* the client's Range header: none, an empty one, a byte range
Ranges == {Absent, "", "bytes=0-0"}

DirectUrl == <<"h", "t", "t", "p", ":", "/", "/", "y", "/", "a">>

ManifestUrl ==
  <<"h", "t", "t", "p", ":", "/", "/", "y", "/", "d", "/",
    "i", ".", "m", "3", "u", "8">>

\* an upstream playlist: a directive, an absolute URI and a relative URI
Manifest ==
  <<"#", "E", "\n",
    "h", "t", "t", "p", ":", "/", "/", "y", "/", "s", "\n",
    "t", ".", "t", "s", "\n">>

\* stream_info None
NoInfo == [url |-> <<>>, protocol |-> "", mime_type |-> "", is_hls |-> FALSE]

\* what ytmusic_client.get_stream_url may return for an identifier
ResolverResults ==
  { NoInfo,
    [url |-> DirectUrl, protocol |-> "https", mime_type |-> "audio/webm",
     is_hls |-> FALSE],
    [url |-> ManifestUrl, protocol |-> "https",
     mime_type |-> "application/octet-stream", is_hls |-> FALSE] }

\* the HLS correction get_stream_info applies to a descriptor
Sanitize(info) ==
  LET proto == info.protocol
      is_hls == (info.url # <<>> /\ contains(info.url, <<".", "m", "3", "u", "8">>))
                \/ proto \in {"m3u8", "m3u8_native"}
  IN  IF is_hls
      THEN [info EXCEPT !.is_hls = TRUE,
                        !.mime_type = "application/vnd.apple.mpegurl",
                        !.protocol = IF proto # "" THEN proto ELSE "m3u8"]
      ELSE info

\* MusicService.get_stream_info: the descriptor returned, the cache after
\* the call and the number of resolver calls made (resolved is what the
\* resolver answers when it is asked)
get_stream_info(c, video_id, resolved) ==
  IF c[video_id] # NoInfo
  THEN [info |-> Sanitize(c[video_id]),
        cache |-> [c EXCEPT ![video_id] = Sanitize(c[video_id])],
        calls |-> 0]
  ELSE IF resolved = NoInfo
  THEN [info |-> NoInfo, cache |-> c, calls |-> 1]
  ELSE [info |-> Sanitize(resolved),
        cache |-> [c EXCEPT ![video_id] = Sanitize(resolved)],
        calls |-> 1]

track_playback_anonymous(h, video_id, user_id, db_ok) ==
  IF db_ok THEN Append(h, [user_id |-> user_id, video_id |-> video_id])
  ELSE h

\* MusicService.track_playback: the history table after the call
track_playback(h, video_id, user_id, db_ok) ==
  IF user_id = 0 THEN h
  ELSE IF db_ok THEN Append(h, [user_id |-> user_id, video_id |-> video_id])
  ELSE h

\* request_headers: the Range header goes upstream when it is truthy
RequestRange(range_header) ==
  IF range_header # Absent /\ range_header # "" THEN range_header ELSE Absent

\* httpx accepts a request URL only with an http or https scheme
IsHttpUrl(u) ==
  \/ startswith(u, <<"h", "t", "t", "p", ":", "/", "/">>)
  \/ startswith(u, <<"h", "t", "t", "p", "s", ":", "/", "/">>)

\* ---- upstream responses: a body is a sequence of chunks of at most
\* ---- 131072 bytes, as aiter_bytes(chunk_size=131072) yields them
NoResp ==
  [status |-> 0, ctype |-> Absent, clen |-> -1, crange |-> Absent,
   aranges |-> Absent, chunks |-> <<>>]

Resp200 ==
  [status |-> 200, ctype |-> "audio/webm", clen |-> 2, crange |-> Absent,
   aranges |-> "none", chunks |-> << <<"b1">>, <<"b2">> >>]

\* chunked, no Content-Type, another body
Resp200Chunked ==
  [status |-> 200, ctype |-> Absent, clen |-> -1, crange |-> Absent,
   aranges |-> Absent, chunks |-> << <<"b3">> >>]

Resp206 ==
  [status |-> 206, ctype |-> "audio/webm", clen |-> 1,
   crange |-> "bytes 0-0/2", aranges |-> "bytes", chunks |-> << <<"b1">> >>]

RespHls ==
  [status |-> 200, ctype |-> "application/x-mpegURL", clen |-> Len(Manifest),
   crange |-> Absent, aranges |-> Absent, chunks |-> <<Manifest>>]

\* the first byte of the playlist, served to a request with a Range
Resp206Hls ==
  [status |-> 206, ctype |-> "application/x-mpegURL", clen |-> 1,
   crange |-> "bytes 0-0/19", aranges |-> "bytes",
   chunks |-> <<SubSeq(Manifest, 1, 1)>>]

Resp403 ==
  [status |-> 403, ctype |-> "text/html", clen |-> 1, crange |-> Absent,
   aranges |-> Absent, chunks |-> << <<"e">> >>]

Resp404 ==
  [status |-> 404, ctype |-> "text/html", clen |-> 1, crange |-> Absent,
   aranges |-> Absent, chunks |-> << <<"e">> >>]

\* what the upstream may answer to a GET; 206 only to a request with a Range
UpstreamResponses(range) ==
  {Resp200, Resp200Chunked, RespHls, Resp403, Resp404}
    \cup (IF range # Absent THEN {Resp206, Resp206Hls} ELSE {})

RECURSIVE Flatten(_)
Flatten(chunks) ==
  IF chunks = <<>> THEN <<>> ELSE Head(chunks) \o Flatten(Tail(chunks))

\* "mpegurl" in media_type.lower()
IsMpegurl(media_type) ==
  media_type \in {"application/x-mpegURL", "application/vnd.apple.mpegurl"}

StatusOk(status) == status \in {200, 206}

\* ---- what the client has received
NoHeaders ==
  [ctype |-> Absent, clen |-> -1, crange |-> Absent, aranges |-> Absent,
   cache_control |-> Absent, allow_methods |-> Absent,
   allow_headers |-> Absent]

IdleReq ==
  [kind |-> "none", pc |-> "idle", video_id |-> <<>>, range |-> Absent,
   token |-> NoToken, user |-> 0, gone |-> FALSE, cors |-> Absent,
   message |-> "", u |-> <<>>, ref |-> <<>>, info |-> NoInfo,
   gets |-> <<>>, resolves |-> 0, failed |-> FALSE, exc |-> FALSE,
   first |-> NoResp, second |-> NoResp, sent |-> 0,
   status |-> 0, detail |-> "", headers |-> NoHeaders, body |-> <<>>,
   out |-> "none"]

NoPlaylist == [video_id |-> <<>>, url |-> <<>>, upstream |-> <<>>, lines |-> <<>>]

\* raise HTTPException(status_code, detail) before the response has started
HttpError_with_status(q, status_code, detail) ==
  [q EXCEPT !.pc = "done", !.status = status_code,
            !.detail = detail \o ": " \o ToString(status_code),
            !.headers = [NoHeaders EXCEPT !.ctype = "application/json"],
            !.out = "complete"]

HttpError(q, status_code, detail) ==
  [q EXCEPT !.pc = "done", !.status = status_code, !.detail = detail,
            !.headers = [NoHeaders EXCEPT !.ctype = "application/json"],
            !.out = "complete"]

\* an exception that leaves the body iterator after the status line and the
\* headers went out: the connection is closed, the status stays as sent
Abort(q) == [q EXCEPT !.pc = "done", !.out = "aborted", !.failed = TRUE]

\* a transport exception or timeout of an upstream call was raised
Raised(q) == [q EXCEPT !.failed = TRUE, !.exc = TRUE]

\* response_headers without the copy of Content-Length
ForwardHeaders_no_length(cache_control, resp, media_type) ==
  [NoHeaders EXCEPT !.ctype = media_type, !.crange = resp.crange,
                    !.aranges = "bytes", !.cache_control = cache_control]

\* response_headers after the upstream headers were copied
ForwardHeaders(cache_control, resp, media_type) ==
  [NoHeaders EXCEPT !.ctype = media_type, !.clen = resp.clen,
                    !.crange = resp.crange, !.aranges = "bytes",
                    !.cache_control = cache_control]

\* the body iterator opening its GET without request_headers
StartStreaming_no_range(q, resp, media_type, cache_control, url) ==
  [q EXCEPT !.pc = "await_stream", !.first = resp,
            !.status = resp.status,
            !.headers = [NoHeaders EXCEPT
                           !.ctype = media_type, !.clen = resp.clen,
                           !.crange = resp.crange, !.aranges = "bytes",
                           !.cache_control = cache_control],
            !.out = "open",
            !.gets = Append(@, [url |-> url, range |-> Absent])]

\* StreamingResponse(...): status line and headers go out, then the body
\* iterator starts and opens its own upstream GET
StartStreaming(q, resp, media_type, cache_control, url) ==
  [q EXCEPT !.pc = "await_stream", !.first = resp,
            !.status = resp.status,
            !.headers = ForwardHeaders(cache_control, resp, media_type),
            !.out = "open",
            !.gets = Append(@, [url |-> url, range |-> RequestRange(q.range)])]

Init ==
  /\ req = [r \in Connections |-> IdleReq]
  /\ cache = [v \in VideoIds |-> NoInfo]
  /\ history = <<>>
  /\ player = NoPlaylist
  /\ running = 0
  /\ now = 0
  /\ expires = [v \in VideoIds |-> 0]
  /\ resolved_at = [v \in VideoIds |-> 0]
  /\ served_age = 0
  /\ playlist_text = <<>>
  /\ rewritten_lines = <<>>
  /\ rewritten_playlist = <<>>
  /\ rw_pc = "off"
  /\ InitOther

\* -------------------------------------------- GET /stream/proxy/{video_id}
\* the synchronous part of the handler: descriptor, history row, request
\* headers, up to the first upstream GET
proxy_stream_sync(r, video_id, range_header, token, resolved, db_ok) ==
     LET g == get_stream_info(cache, video_id, resolved)
         user_id == get_current_user(token)
         q == [IdleReq EXCEPT !.kind = "proxy", !.video_id = video_id,
                              !.range = range_header,
                              !.token = token, !.user = user_id,
                              !.resolves = g.calls, !.info = g.info]
     IN  /\ cache' = g.cache
         /\ IF g.info = NoInfo
            THEN /\ req' = [req EXCEPT
                              ![r] = HttpError(q, 404, "Stream info not found")]
                 /\ UNCHANGED history
            ELSE /\ (user_id # 0 /\ db_ok) => Len(history) < MaxHistory
                 /\ history' = track_playback(history, video_id, user_id, db_ok)
                 /\ req' = [req EXCEPT ![r] =
                      [q EXCEPT !.pc = "await_first",
                                !.gets = <<[url |-> g.info.url,
                                            range |-> RequestRange(range_header)]>>]]

\* the handler writing a history row only for a song the user has none of
proxy_stream_once_per_song(r, video_id, range_header, token, resolved, db_ok) ==
  /\ req[r].pc = "idle"
  /\ proxy_stream_sync(r, video_id, range_header, token, resolved,
                       db_ok /\ \A i \in 1..Len(history) :
                                  history[i] # [user_id |-> get_current_user(token),
                                                video_id |-> video_id])
  /\ UNCHANGED <<player, sidevars>>

\* the handler up to the first upstream GET
proxy_stream(r, video_id, range_header, token, resolved, db_ok) ==
  /\ req[r].pc = "idle"
  /\ proxy_stream_sync(r, video_id, range_header, token, resolved, db_ok)
  /\ UNCHANGED <<player, sidevars>>

\* the first upstream GET answers, a bad status dropping the cache entry
proxy_stream_response_invalidates(r, resp) ==
  /\ req[r].kind = "proxy" /\ req[r].pc = "await_first"
  /\ resp \in UpstreamResponses(req[r].gets[1].range)
  /\ LET q == req[r]
         media_type == IF resp.ctype # Absent THEN resp.ctype ELSE "audio/webm"
         segment_base == SegmentBase(q.video_id)
         text == Flatten(resp.chunks)
     IN  IF ~StatusOk(resp.status)
         THEN /\ req' = [req EXCEPT ![r] =
                   [HttpError(q, resp.status, "Stream unavailable")
                      EXCEPT !.first = resp, !.failed = TRUE]]
              /\ UNCHANGED player
         ELSE IF IsMpegurl(media_type)
         THEN /\ req' = [req EXCEPT ![r] =
                   [q EXCEPT !.pc = "done", !.first = resp,
                             !.status = resp.status,
                             !.headers =
                               [ForwardHeaders("public, max-age=3600", resp,
                                               "application/vnd.apple.mpegurl")
                                  EXCEPT !.clen =
                                    Len(RewritePlaylist(segment_base, text))],
                             !.body = RewritePlaylist(segment_base, text),
                             !.out = "complete"]]
              /\ player' = [video_id |-> q.video_id, url |-> q.info.url,
                            upstream |-> text,
                            lines |-> RewriteLines(segment_base, text)]
         ELSE /\ req' = [req EXCEPT ![r] =
                   StartStreaming(q, resp, media_type, "public, max-age=3600",
                                  q.info.url)]
              /\ UNCHANGED player
  /\ cache' = IF StatusOk(resp.status) THEN cache
              ELSE [cache EXCEPT ![req[r].video_id] = NoInfo]
  /\ UNCHANGED <<history, sidevars>>

\* the first upstream GET answers
proxy_stream_response(r, resp) ==
  /\ req[r].kind = "proxy" /\ req[r].pc = "await_first"
  /\ resp \in UpstreamResponses(req[r].gets[1].range)
  /\ LET q == req[r]
         media_type == IF resp.ctype # Absent THEN resp.ctype ELSE "audio/webm"
         segment_base == SegmentBase(q.video_id)
         text == Flatten(resp.chunks)
     IN  IF ~StatusOk(resp.status)
         THEN /\ req' = [req EXCEPT ![r] =
                   [HttpError(q, resp.status, "Stream unavailable")
                      EXCEPT !.first = resp, !.failed = TRUE]]
              /\ UNCHANGED player
         ELSE IF IsMpegurl(media_type)
         THEN /\ req' = [req EXCEPT ![r] =
                   [q EXCEPT !.pc = "done", !.first = resp,
                             !.status = resp.status,
                             !.headers =
                               [ForwardHeaders("public, max-age=3600", resp,
                                               "application/vnd.apple.mpegurl")
                                  EXCEPT !.clen =
                                    Len(RewritePlaylist(segment_base, text))],
                             !.body = RewritePlaylist(segment_base, text),
                             !.out = "complete"]]
              /\ player' = [video_id |-> q.video_id, url |-> q.info.url,
                            upstream |-> text,
                            lines |-> RewriteLines(segment_base, text)]
         ELSE /\ req' = [req EXCEPT ![r] =
                   StartStreaming(q, resp, media_type, "public, max-age=3600",
                                  q.info.url)]
              /\ UNCHANGED player
  /\ UNCHANGED <<cache, history, sidevars>>

\* the handler fetching again after an exception of the first upstream GET
proxy_stream_exception_retry(r) ==
  /\ req[r].kind = "proxy" /\ req[r].pc = "await_first"
  /\ req' = [req EXCEPT ![r] =
       IF Len(req[r].gets) < 3
       THEN [req[r] EXCEPT !.failed = TRUE, !.exc = TRUE,
                           !.gets = Append(@, req[r].gets[1])]
       ELSE [HttpError(req[r], 500, "Stream proxy failed")
               EXCEPT !.failed = TRUE, !.exc = TRUE]]
  /\ UNCHANGED <<cache, history, player, sidevars>>

\* the first upstream GET raises (connection error, timeout)
proxy_stream_exception(r) ==
  /\ req[r].kind = "proxy" /\ req[r].pc = "await_first"
  /\ req' = [req EXCEPT ![r] =
       Raised(HttpError(req[r], 500, "Stream proxy failed"))]
  /\ UNCHANGED <<cache, history, player, sidevars>>

\* stream_generator: the streaming GET answers
stream_generator_open(r, resp) ==
  /\ req[r].kind = "proxy" /\ req[r].pc = "await_stream" /\ ~req[r].gone
  /\ resp \in UpstreamResponses(req[r].gets[2].range)
  /\ req' = [req EXCEPT ![r] =
       IF ~StatusOk(resp.status)
       THEN [Abort(req[r]) EXCEPT !.second = resp]
       ELSE [req[r] EXCEPT !.pc = "streaming", !.second = resp]]
  /\ UNCHANGED <<cache, history, player, sidevars>>

\* stream_generator: one chunk read from the upstream and sent to the client
stream_generator_chunk(r) ==
  /\ req[r].kind = "proxy" /\ req[r].pc = "streaming" /\ ~req[r].gone
  /\ req[r].sent < Len(req[r].second.chunks)
  /\ req' = [req EXCEPT ![r] =
       [req[r] EXCEPT !.sent = @ + 1,
                      !.body = @ \o req[r].second.chunks[req[r].sent + 1]]]
  /\ UNCHANGED <<cache, history, player, sidevars>>

\* stream_generator: the upstream body is exhausted
stream_generator_end_drops_entry(r) ==
  /\ req[r].kind = "proxy" /\ req[r].pc = "streaming" /\ ~req[r].gone
  /\ req[r].sent = Len(req[r].second.chunks)
  /\ req' = [req EXCEPT ![r] = [req[r] EXCEPT !.pc = "done", !.out = "complete"]]
  /\ cache' = [cache EXCEPT ![req[r].video_id] = NoInfo]
  /\ UNCHANGED <<history, player, sidevars>>

stream_generator_end(r) ==
  /\ req[r].kind = "proxy" /\ req[r].pc = "streaming" /\ ~req[r].gone
  /\ req[r].sent = Len(req[r].second.chunks)
  /\ req' = [req EXCEPT ![r] = [req[r] EXCEPT !.pc = "done", !.out = "complete"]]
  /\ UNCHANGED <<cache, history, player, sidevars>>

\* stream_generator: the streaming GET or a chunk read raises
stream_generator_exception(r) ==
  /\ req[r].kind = "proxy" /\ req[r].pc \in {"await_stream", "streaming"}
  /\ req' = [req EXCEPT ![r] = Raised(Abort(req[r]))]
  /\ UNCHANGED <<cache, history, player, sidevars>>

\* ------------------------------------ GET /stream/segment/{video_id}?u=...
\* the URLs a client asks the segment relay for: the u parameter of a line
\* of the playlist it received, or a URL of its own
PlayerLines == {i \in 1..Len(player.lines) :
                  IsRelayUrl(SegmentBase(player.video_id), player.lines[i])}

\* the directory of a URL: everything up to its last "/"
RECURSIVE UrlDir(_)
UrlDir(url) ==
  IF url = <<>> \/ url[Len(url)] = "/" THEN url
  ELSE UrlDir(SubSeq(url, 1, Len(url) - 1))

\* the location a playlist line refers to (RFC 3986 reference resolution)
ResolveRef(base, ref) == IF IsHttpUrl(ref) THEN ref ELSE UrlDir(base) \o ref

\* the handler up to the probing upstream GET; ref is the location the
\* playlist line behind u referred to, <<>> for a URL of the client's own
segment_proxy(r, video_id, u, ref, range_header) ==
  /\ req[r].pc = "idle"
  /\ LET q == [IdleReq EXCEPT !.kind = "segment", !.video_id = video_id,
                              !.range = range_header, !.u = u, !.ref = ref]
     IN  req' = [req EXCEPT ![r] =
           IF IsHttpUrl(u)
           THEN [q EXCEPT !.pc = "await_first",
                          !.gets = <<[url |-> u,
                                      range |-> RequestRange(range_header)]>>]
           ELSE Raised(HttpError(q, 500, "Segment proxy failed"))]
  /\ UNCHANGED <<cache, history, player, sidevars>>

segment_proxy_response(r, resp) ==
  /\ req[r].kind = "segment" /\ req[r].pc = "await_first"
  /\ resp \in UpstreamResponses(req[r].gets[1].range)
  /\ LET q == req[r]
         media_type == IF resp.ctype # Absent THEN resp.ctype ELSE "video/mp2t"
     IN  req' = [req EXCEPT ![r] =
           IF ~StatusOk(resp.status)
           THEN [HttpError(q, resp.status, "Segment unavailable")
                   EXCEPT !.first = resp, !.failed = TRUE]
           ELSE StartStreaming(q, resp, media_type, "public, max-age=600", q.u)]
  /\ UNCHANGED <<cache, history, player, sidevars>>

segment_proxy_exception(r) ==
  /\ req[r].kind = "segment" /\ req[r].pc = "await_first"
  /\ req' = [req EXCEPT ![r] =
       Raised(HttpError(req[r], 500, "Segment proxy failed"))]
  /\ UNCHANGED <<cache, history, player, sidevars>>

stream_segment_open(r, resp) ==
  /\ req[r].kind = "segment" /\ req[r].pc = "await_stream" /\ ~req[r].gone
  /\ resp \in UpstreamResponses(req[r].gets[2].range)
  /\ req' = [req EXCEPT ![r] =
       IF ~StatusOk(resp.status)
       THEN [Abort(req[r]) EXCEPT !.second = resp]
       ELSE [req[r] EXCEPT !.pc = "streaming", !.second = resp]]
  /\ UNCHANGED <<cache, history, player, sidevars>>

\* the segment iterator rewriting playlist chunks as proxy_stream does
stream_segment_chunk_rewritten(r) ==
  /\ req[r].kind = "segment" /\ req[r].pc = "streaming" /\ ~req[r].gone
  /\ req[r].sent < Len(req[r].second.chunks)
  /\ req' = [req EXCEPT ![r] =
       [req[r] EXCEPT
          !.sent = @ + 1,
          !.body = @ \o (IF IsMpegurl(req[r].second.ctype)
                         THEN RewritePlaylist(SegmentBase(req[r].video_id),
                                req[r].second.chunks[req[r].sent + 1])
                         ELSE req[r].second.chunks[req[r].sent + 1])]]
  /\ UNCHANGED <<cache, history, player, sidevars>>

stream_segment_chunk(r) ==
  /\ req[r].kind = "segment" /\ req[r].pc = "streaming" /\ ~req[r].gone
  /\ req[r].sent < Len(req[r].second.chunks)
  /\ req' = [req EXCEPT ![r] =
       [req[r] EXCEPT !.sent = @ + 1,
                      !.body = @ \o req[r].second.chunks[req[r].sent + 1]]]
  /\ UNCHANGED <<cache, history, player, sidevars>>

stream_segment_end(r) ==
  /\ req[r].kind = "segment" /\ req[r].pc = "streaming" /\ ~req[r].gone
  /\ req[r].sent = Len(req[r].second.chunks)
  /\ req' = [req EXCEPT ![r] = [req[r] EXCEPT !.pc = "done", !.out = "complete"]]
  /\ UNCHANGED <<cache, history, player, sidevars>>

stream_segment_exception(r) ==
  /\ req[r].kind = "segment" /\ req[r].pc \in {"await_stream", "streaming"}
  /\ req' = [req EXCEPT ![r] = Raised(Abort(req[r]))]
  /\ UNCHANGED <<cache, history, player, sidevars>>

\* ------------------------------------------------- GET /stream/info/{id}
\* the route get_stream_info: the descriptor as JSON, 404 when there is none;
\* the playback is tracked after the descriptor was found
get_stream_info_route_track_first(r, video_id, token, resolved, db_ok) ==
  /\ req[r].pc = "idle"
  /\ LET g == get_stream_info(cache, video_id, resolved)
         user_id == get_current_user(token)
         q == [IdleReq EXCEPT !.kind = "info", !.video_id = video_id,
                              !.token = token, !.user = user_id,
                              !.info = g.info, !.resolves = g.calls]
     IN /\ cache' = g.cache
        /\ IF g.info = NoInfo
           THEN /\ req' = [req EXCEPT ![r] =
                            HttpError(q, 404, "Stream info not found")]
                /\ history' = track_playback(history, video_id, user_id, db_ok)
           ELSE /\ req' = [req EXCEPT ![r] =
                            [q EXCEPT !.pc = "done", !.status = 200,
                                      !.out = "complete"]]
                /\ history' = track_playback(history, video_id, user_id, db_ok)
  /\ Len(history') <= MaxHistory
  /\ UNCHANGED <<player, sidevars>>

get_stream_info_route(r, video_id, token, resolved, db_ok) ==
  /\ req[r].pc = "idle"
  /\ LET g == get_stream_info(cache, video_id, resolved)
         user_id == get_current_user(token)
         q == [IdleReq EXCEPT !.kind = "info", !.video_id = video_id,
                              !.token = token, !.user = user_id,
                              !.info = g.info, !.resolves = g.calls]
     IN /\ cache' = g.cache
        /\ IF g.info = NoInfo
           THEN /\ req' = [req EXCEPT ![r] =
                            HttpError(q, 404, "Stream info not found")]
                /\ history' = history
           ELSE /\ req' = [req EXCEPT ![r] =
                            [q EXCEPT !.pc = "done", !.status = 200,
                                      !.out = "complete"]]
                /\ history' = track_playback(history, video_id, user_id, db_ok)
  /\ Len(history') <= MaxHistory
  /\ UNCHANGED <<player, sidevars>>

\* ------------------------------------------------------- POST /play/{id}
track_play(r, video_id, token, db_ok) ==
  /\ req[r].pc = "idle"
  /\ LET user_id == get_current_user(token)
     IN /\ history' = track_playback(history, video_id, user_id, db_ok)
        /\ req' = [req EXCEPT ![r] =
                     [IdleReq EXCEPT
                        !.kind = "play", !.video_id = video_id,
                        !.token = token, !.user = user_id,
                        !.pc = "done", !.status = 200, !.out = "complete",
                        !.message =
                          IF user_id # 0 THEN "Playback tracked"
                          ELSE "Playback not saved (anonymous user)"]]
  /\ Len(history') <= MaxHistory
  /\ UNCHANGED <<cache, player, sidevars>>

\* ------------------------------------------------------------- OPTIONS
\* the CORS headers of an OPTIONS request: none, an Origin only, or a
\* browser's preflight (Origin and Access-Control-Request-Method)
CorsKinds == {"plain", "origin", "preflight"}

\* ids an OPTIONS request may name: one that resolves, one that does not
PathIds == VideoIds \cup {<<"?">>}

\* CORSMiddleware hands a request to the routes unless it is a preflight
IsPreflight(cors) == cors = "preflight"

OptionsResponse(kind, video_id, cors) ==
  [IdleReq EXCEPT
     !.kind = kind, !.video_id = video_id, !.cors = cors,
     !.pc = "done", !.status = 204, !.out = "complete",
     !.headers = [NoHeaders EXCEPT
                    !.allow_methods = "GET, OPTIONS",
                    !.allow_headers = "Range, Origin, Accept, Content-Type"]]

options_proxy_stream(r, video_id, cors) ==
  /\ req[r].pc = "idle"
  /\ ~IsPreflight(cors)
  /\ req' = [req EXCEPT ![r] = OptionsResponse("options_proxy", video_id, cors)]
  /\ UNCHANGED <<cache, history, player, sidevars>>

options_segment_proxy(r, video_id, cors) ==
  /\ req[r].pc = "idle"
  /\ ~IsPreflight(cors)
  /\ req' = [req EXCEPT ![r] = OptionsResponse("options_segment", video_id, cors)]
  /\ UNCHANGED <<cache, history, player, sidevars>>

\* CORSMiddleware.preflight_response: the middleware answers a preflight
\* itself, PlainTextResponse("OK", 200), and no route handler runs
preflight_response(r, kind, video_id) ==
  /\ req[r].pc = "idle"
  /\ req' = [req EXCEPT ![r] =
               [IdleReq EXCEPT
                  !.kind = kind, !.video_id = video_id, !.cors = "preflight",
                  !.pc = "done", !.status = 200, !.out = "complete",
                  !.body = <<"O", "K">>,
                  !.headers = [NoHeaders EXCEPT
                     !.ctype = "text/plain; charset=utf-8", !.clen = 2,
                     !.allow_methods =
                       "DELETE, GET, HEAD, OPTIONS, PATCH, POST, PUT"]]]
  /\ UNCHANGED <<cache, history, player, sidevars>>

\* ------------------------------------------------------ client disconnect
\* the upstream connection of the body generator is open
UpstreamOpen(q) ==
  q.kind \in {"proxy", "segment"} /\ q.pc \in {"await_stream", "streaming"}

\* the client closes its connection while the body is being streamed
client_disconnect(r) ==
  /\ UpstreamOpen(req[r]) /\ ~req[r].gone
  /\ req' = [req EXCEPT ![r] = [req[r] EXCEPT !.gone = TRUE]]
  /\ UNCHANGED <<cache, history, player, sidevars>>

stream_cancelled_upstream_kept(r) ==
  /\ UpstreamOpen(req[r]) /\ req[r].gone /\ req[r].out # "aborted"
  /\ req' = [req EXCEPT ![r] = [req[r] EXCEPT !.out = "aborted"]]
  /\ UNCHANGED <<cache, history, player, sidevars>>

\* the runtime ends the body generator of a client that is gone: the
\* exception leaves the two async with blocks, which close the upstream
\* response and the client
stream_cancelled(r) ==
  /\ UpstreamOpen(req[r]) /\ req[r].gone
  /\ req' = [req EXCEPT ![r] =
               [req[r] EXCEPT !.pc = "done", !.out = "aborted"]]
  /\ UNCHANGED <<cache, history, player, sidevars>>

\* ------------------------------------------------------------ environment
\* the exchange is over: the connection serves the next request
request_closed(r) ==
  /\ req[r].pc = "done"
  /\ req' = [req EXCEPT ![r] = IdleReq]
  /\ UNCHANGED <<cache, history, player, sidevars>>

\* the 900 second TTL of a cache entry runs out
cache_expire(video_id) ==
  /\ cache[video_id] # NoInfo
  /\ cache' = [cache EXCEPT ![video_id] = NoInfo]
  /\ UNCHANGED <<req, history, player, sidevars>>

ProxyStart ==
  \E r \in DOMAIN req, v \in VideoIds, rg \in Ranges, tok \in Tokens,
     resolved \in ResolverResults, db_ok \in BOOLEAN :
    proxy_stream(r, v, rg, tok, resolved, db_ok)

SegmentFromPlaylist ==
  \E r \in DOMAIN req, i \in PlayerLines, rg \in Ranges :
    segment_proxy(r, player.video_id, ParamU(player.lines[i]),
                  ResolveRef(player.url, strip(splitlines(player.upstream)[i])),
                  rg)

SegmentDirect ==
  \E r \in DOMAIN req, v \in VideoIds, rg \in Ranges :
    segment_proxy(r, v, DirectUrl, <<>>, rg)

InfoStart ==
  \E r \in DOMAIN req, v \in VideoIds, tok \in Tokens,
     resolved \in ResolverResults, db_ok \in BOOLEAN :
    get_stream_info_route(r, v, tok, resolved, db_ok)

PlayStart ==
  \E r \in DOMAIN req, v \in VideoIds, tok \in Tokens, db_ok \in BOOLEAN :
    track_play(r, v, tok, db_ok)

OptionsKinds == {"options_proxy", "options_segment"}

Next ==
  \/ ProxyStart
  \/ \E r \in DOMAIN req : client_disconnect(r)
  \/ \E r \in DOMAIN req : stream_cancelled(r)
  \/ InfoStart
  \/ PlayStart
  \/ \E r \in DOMAIN req, v \in PathIds, c \in CorsKinds :
       options_proxy_stream(r, v, c)
  \/ \E r \in DOMAIN req, v \in PathIds, c \in CorsKinds :
       options_segment_proxy(r, v, c)
  \/ \E r \in DOMAIN req, k \in OptionsKinds, v \in PathIds :
       preflight_response(r, k, v)
  \/ \E r \in DOMAIN req, resp \in UpstreamResponses("bytes=0-0") :
       proxy_stream_response(r, resp)
  \/ \E r \in DOMAIN req : proxy_stream_exception(r)
  \/ \E r \in DOMAIN req, resp \in UpstreamResponses("bytes=0-0") :
       stream_generator_open(r, resp)
  \/ \E r \in DOMAIN req : stream_generator_chunk(r)
  \/ \E r \in DOMAIN req : stream_generator_end(r)
  \/ \E r \in DOMAIN req : stream_generator_exception(r)
  \/ SegmentFromPlaylist
  \/ SegmentDirect
  \/ \E r \in DOMAIN req, resp \in UpstreamResponses("bytes=0-0") :
       segment_proxy_response(r, resp)
  \/ \E r \in DOMAIN req : segment_proxy_exception(r)
  \/ \E r \in DOMAIN req, resp \in UpstreamResponses("bytes=0-0") :
       stream_segment_open(r, resp)
  \/ \E r \in DOMAIN req : stream_segment_chunk(r)
  \/ \E r \in DOMAIN req : stream_segment_end(r)
  \/ \E r \in DOMAIN req : stream_segment_exception(r)
  \/ \E r \in DOMAIN req : request_closed(r)
  \/ \E v \in VideoIds : cache_expire(v)

Spec == Init /\ [][Next]_vars

\* ------------------------------------------------------ playlist service
PlTokens == {NoToken, "jwt-alice", "jwt-bob"}

\* PlaylistService.get_playlist: the row with this id and this owner
get_playlist_any_owner(pls, playlist_id, user_id) == pls[playlist_id]

get_playlist(pls, playlist_id, user_id) ==
  IF pls[playlist_id] # NoRow /\ pls[playlist_id].user_id = user_id
  THEN pls[playlist_id]
  ELSE NoRow

\* the positions of the playlist_songs rows of a playlist and a song
SongRows(rows, playlist_id, video_id) ==
  {i \in 1..Len(rows) :
     rows[i].playlist_id = playlist_id /\ rows[i].video_id = video_id}

\* query(...).first(): the oldest matching row
FirstRow(rows, playlist_id, video_id) ==
  CHOOSE i \in SongRows(rows, playlist_id, video_id) :
    \A j \in SongRows(rows, playlist_id, video_id) : i <= j

DeleteRow(rows, i) == SubSeq(rows, 1, i - 1) \o SubSeq(rows, i + 1, Len(rows))

\* cascade="all, delete-orphan": the song rows go with their playlist
DeleteSongsOf(rows, playlist_id) ==
  SelectSeq(rows, LAMBDA row : row.playlist_id # playlist_id)

\* the answer of a playlist route
PlResponse(op, token, playlist_id, video_id, status, detail) ==
  [op |-> op, pc |-> "done", token |-> token,
   user |-> get_current_user(token), playlist_id |-> playlist_id,
   video_id |-> video_id, status |-> status, detail |-> detail]

\* require_current_user raises 401 before the route body runs
Unauthorized(op, token, playlist_id, video_id) ==
  PlResponse(op, token, playlist_id, video_id, 401, "Not authenticated")

PlNotFound(op, token, playlist_id, video_id) ==
  PlResponse(op, token, playlist_id, video_id, 404, "Playlist not found")

PlOk(op, token, playlist_id, video_id) ==
  PlResponse(op, token, playlist_id, video_id, 200, "")

FreePlaylistIds == {p \in PlaylistIds : playlists[p] = NoRow}

create_playlist(s, token, name) ==
  /\ pl[s].pc = "idle"
  /\ LET user_id == get_current_user(token)
     IN  IF user_id = 0
         THEN /\ pl' = [pl EXCEPT ![s] = Unauthorized("create", token, 0, "")]
              /\ UNCHANGED <<playlists, playlist_songs, sel>>
         ELSE /\ FreePlaylistIds # {}
              /\ LET id == CHOOSE p \in FreePlaylistIds :
                             \A o \in FreePlaylistIds : p <= o
                 IN /\ playlists' = [playlists EXCEPT
                                       ![id] = [user_id |-> user_id,
                                                name |-> name]]
                    /\ pl' = [pl EXCEPT ![s] = PlOk("create", token, id, "")]
              /\ UNCHANGED playlist_songs
  /\ UNCHANGED <<relayvars, rwvars, ttlvars, running,
                 sivars, srch,
                 cavars, sel>>

get_playlist_route(s, token, playlist_id) ==
  /\ pl[s].pc = "idle"
  /\ LET user_id == get_current_user(token)
     IN  pl' = [pl EXCEPT ![s] =
           IF user_id = 0 THEN Unauthorized("get", token, playlist_id, "")
           ELSE IF get_playlist(playlists, playlist_id, user_id) = NoRow
           THEN PlNotFound("get", token, playlist_id, "")
           ELSE PlOk("get", token, playlist_id, "")]
  /\ UNCHANGED <<playlists, playlist_songs, relayvars, rwvars, ttlvars,
                 running, sivars, srch,
                 cavars, sel>>

update_playlist(s, token, playlist_id, name) ==
  /\ pl[s].pc = "idle"
  /\ LET user_id == get_current_user(token)
     IN  IF user_id = 0
         THEN /\ pl' = [pl EXCEPT ![s] =
                         Unauthorized("update", token, playlist_id, "")]
              /\ UNCHANGED playlists
         ELSE IF get_playlist(playlists, playlist_id, user_id) = NoRow
         THEN /\ pl' = [pl EXCEPT ![s] =
                         PlNotFound("update", token, playlist_id, "")]
              /\ UNCHANGED playlists
         ELSE /\ playlists' = [playlists EXCEPT ![playlist_id].name = name]
              /\ pl' = [pl EXCEPT ![s] = PlOk("update", token, playlist_id, "")]
  /\ UNCHANGED <<playlist_songs, relayvars, rwvars, ttlvars, running,
                 sivars, srch,
                 cavars, sel>>

delete_playlist(s, token, playlist_id) ==
  /\ pl[s].pc = "idle"
  /\ LET user_id == get_current_user(token)
     IN  IF user_id = 0
         THEN /\ pl' = [pl EXCEPT ![s] =
                         Unauthorized("delete", token, playlist_id, "")]
              /\ UNCHANGED <<playlists, playlist_songs, sel>>
         ELSE IF get_playlist(playlists, playlist_id, user_id) = NoRow
         THEN /\ pl' = [pl EXCEPT ![s] =
                         PlNotFound("delete", token, playlist_id, "")]
              /\ UNCHANGED <<playlists, playlist_songs, sel>>
         ELSE /\ playlists' = [playlists EXCEPT ![playlist_id] = NoRow]
              /\ playlist_songs' = DeleteSongsOf(playlist_songs, playlist_id)
              /\ pl' = [pl EXCEPT ![s] = PlOk("delete", token, playlist_id, "")]
  /\ UNCHANGED <<relayvars, rwvars, ttlvars, running,
                 sivars, srch,
                 cavars, sel>>

\* add_song_to_playlist up to the query for an existing row
add_song_check(s, token, playlist_id, video_id) ==
  /\ pl[s].pc = "idle"
  /\ LET user_id == get_current_user(token)
     IN  pl' = [pl EXCEPT ![s] =
           IF user_id = 0
           THEN Unauthorized("add", token, playlist_id, video_id)
           ELSE IF get_playlist(playlists, playlist_id, user_id) = NoRow
           THEN PlNotFound("add", token, playlist_id, video_id)
           ELSE IF SongRows(playlist_songs, playlist_id, video_id) # {}
           THEN PlOk("add", token, playlist_id, video_id)
           ELSE [PlOk("add", token, playlist_id, video_id)
                   EXCEPT !.pc = "insert", !.status = 0]]
  /\ UNCHANGED <<playlists, playlist_songs, relayvars, rwvars, ttlvars,
                 running, sivars, srch,
                 cavars, sel>>

\* add_song_to_playlist: db.add and db.commit of the new row; a commit
\* that raises is rolled back and answered as not found
add_song_insert(s, db_ok) ==
  /\ pl[s].pc = "insert"
  /\ IF db_ok
     THEN /\ Len(playlist_songs) < MaxSongs
          /\ playlist_songs' =
               Append(playlist_songs, [playlist_id |-> pl[s].playlist_id,
                                       video_id |-> pl[s].video_id])
          /\ pl' = [pl EXCEPT ![s] = [pl[s] EXCEPT !.pc = "done",
                                                   !.status = 200]]
     ELSE /\ playlist_songs' = playlist_songs
          /\ pl' = [pl EXCEPT ![s] =
                      PlNotFound("add", pl[s].token, pl[s].playlist_id,
                                 pl[s].video_id)]
  /\ UNCHANGED <<playlists, relayvars, rwvars, ttlvars, running,
                 sivars, srch,
                 cavars, sel>>

remove_song_from_playlist(s, token, playlist_id, video_id) ==
  /\ pl[s].pc = "idle"
  /\ LET user_id == get_current_user(token)
         found == SongRows(playlist_songs, playlist_id, video_id) # {}
     IN  IF user_id = 0
         THEN /\ pl' = [pl EXCEPT ![s] =
                         Unauthorized("remove", token, playlist_id, video_id)]
              /\ UNCHANGED playlist_songs
         ELSE IF get_playlist(playlists, playlist_id, user_id) = NoRow
                 \/ ~found
         THEN /\ pl' = [pl EXCEPT ![s] =
                         PlResponse("remove", token, playlist_id, video_id,
                                    404, "Song not found in playlist")]
              /\ UNCHANGED playlist_songs
         ELSE /\ playlist_songs' =
                   DeleteRow(playlist_songs,
                             FirstRow(playlist_songs, playlist_id, video_id))
              /\ pl' = [pl EXCEPT ![s] =
                         PlOk("remove", token, playlist_id, video_id)]
  /\ UNCHANGED <<playlists, relayvars, rwvars, ttlvars, running,
                 sivars, srch,
                 cavars, sel>>

\* the session is closed and serves the next request
playlist_closed(s) ==
  /\ pl[s].pc = "done"
  /\ pl' = [pl EXCEPT ![s] = IdlePl]
  /\ UNCHANGED <<playlists, playlist_songs, relayvars, rwvars, ttlvars,
                 running, sivars, srch,
                 cavars, sel>>

NextPlaylist ==
  \/ \E s \in Sessions, tok \in PlTokens, n \in PlaylistNames :
       create_playlist(s, tok, n)
  \/ \E s \in Sessions, tok \in PlTokens, p \in PlaylistIds :
       get_playlist_route(s, tok, p)
  \/ \E s \in Sessions, tok \in PlTokens, p \in PlaylistIds,
        n \in PlaylistNames : update_playlist(s, tok, p, n)
  \/ \E s \in Sessions, tok \in PlTokens, p \in PlaylistIds :
       delete_playlist(s, tok, p)
  \/ \E s \in Sessions, tok \in PlTokens, p \in PlaylistIds,
        v \in SongIds : add_song_check(s, tok, p, v)
  \/ \E s \in Sessions, db_ok \in BOOLEAN : add_song_insert(s, db_ok)
  \/ \E s \in Sessions, tok \in PlTokens, p \in PlaylistIds,
        v \in SongIds : remove_song_from_playlist(s, tok, p, v)
  \/ \E s \in Sessions : playlist_closed(s)

SpecPlaylist == Init /\ [][NextPlaylist]_vars

\* ----------------------------------------------------------- GET /search
Limits == 1..50

\* the tokens a client may send with its first request
InitialTokens == {NoCont, <<>>, <<"x">>, <<"0">>}

\* the first request of a client
search_songs_first(n, limit, continuation) ==
  /\ srch.pc = "new"
  /\ LET found == search(n, limit, continuation)
     IN  srch' = [pc |-> "paging", n |-> n, limit |-> limit,
                  sent |-> continuation, page |-> 0,
                  results |-> found.results,
                  continuation |-> found.continuation,
                  seen |-> found.results, pages |-> 1]
  /\ UNCHANGED <<relayvars, rwvars, ttlvars, running, plvars, sivars,
                 cavars, sel>>

\* the client asks for the next page with the token it was given
search_songs_next ==
  /\ srch.pc = "paging" /\ srch.continuation # NoCont
  /\ srch.pages < MaxPages
  /\ LET found == search(srch.n, srch.limit, srch.continuation)
     IN  srch' = [srch EXCEPT !.sent = srch.continuation,
                              !.page = srch.pages,
                              !.results = found.results,
                              !.continuation = found.continuation,
                              !.seen = @ \o found.results,
                              !.pages = @ + 1]
  /\ UNCHANGED <<relayvars, rwvars, ttlvars, running, plvars, sivars,
                 cavars, sel>>

NextSearch ==
  \/ \E n \in 0..MaxResults, limit \in Limits, c \in InitialTokens :
       search_songs_first(n, limit, c)
  \/ search_songs_next

SpecSearch == Init /\ [][NextSearch]_vars

\* ------------------------------------------------------ stream selection
\* the top-level fields of the extracted info
TopLevels ==
  { [url |-> <<>>, protocol |-> "", ext |-> ""],
    [url |-> DirectUrl, protocol |-> "", ext |-> "webm"],
    [url |-> ManifestUrl, protocol |-> "", ext |-> "mp4"],
    [url |-> DirectUrl, protocol |-> "M3U8_NATIVE", ext |-> ""] }

_infer_mime_type(ext) ==
  IF ext = "" THEN "application/octet-stream"
  ELSE LET e == lower(ext)
       IN  IF e \in {"m3u8", "hls", "mpegurl"}
           THEN "application/vnd.apple.mpegurl"
           ELSE IF e \in {"m4a", "mp4"} THEN "audio/mp4"
           ELSE IF e = "webm" THEN "audio/webm"
           ELSE IF e = "mp3" THEN "audio/mpeg"
           ELSE "audio/" \o e

\* f.get("abr") or f.get("tbr") or 0
abr_or_tbr(f) == IF f.abr # 0 THEN f.abr ELSE f.tbr

score_bitrate_only(f) == <<0, abr_or_tbr(f)>>

\* score: the extension bonus, then the bitrate
score(f) ==
  <<IF lower(f.ext) = "m4a" THEN 2 ELSE IF lower(f.ext) = "webm" THEN 1 ELSE 0,
    abr_or_tbr(f)>>

\* the order of tuples of two numbers
TupleLess(a, b) == a[1] < b[1] \/ (a[1] = b[1] /\ a[2] < b[2])

\* list.sort(key=..., reverse=True)[0] over the positions in idx, keys
\* holding the key of every position: the first position none of the
\* others beats (the sort is stable)
FirstBest(keys, idx) ==
  CHOOSE i \in idx :
    \A j \in idx : /\ ~TupleLess(keys[i], keys[j])
                   /\ keys[j] = keys[i] => i <= j

HlsKey(f) == <<0, abr_or_tbr(f)>>

_select_best_audio_stream(fmts, top) ==
  LET audio_direct == {i \in 1..Len(fmts) :
                         fmts[i].vcodec = "none"
                           /\ fmts[i].protocol \in {"https", "http"}}
      hls_audio == {i \in 1..Len(fmts) :
                      fmts[i].vcodec = "none"
                        /\ fmts[i].protocol \in {"m3u8", "m3u8_native"}}
  IN  IF audio_direct # {}
      THEN LET best == fmts[FirstBest([i \in 1..Len(fmts) |-> score(fmts[i])],
                                    audio_direct)]
           IN  [NoStream EXCEPT
                  !.url = best.url, !.found = TRUE,
                  !.ext = IF best.ext # "" THEN best.ext ELSE top.ext,
                  !.mime_type = _infer_mime_type(best.ext),
                  !.protocol = best.protocol, !.is_hls = FALSE]
      ELSE IF hls_audio # {}
      THEN LET best == fmts[FirstBest([i \in 1..Len(fmts) |-> HlsKey(fmts[i])],
                                    hls_audio)]
           IN  [NoStream EXCEPT
                  !.url = best.url, !.found = TRUE,
                  !.ext = IF best.ext # "" THEN best.ext ELSE top.ext,
                  !.mime_type = "application/vnd.apple.mpegurl",
                  !.protocol = best.protocol, !.is_hls = TRUE]
      ELSE IF top.url # <<>>
      THEN LET proto == lower(top.protocol)
               is_hls == proto \in {"m3u8", "m3u8_native"}
                           \/ contains(top.url, <<".", "m", "3", "u", "8">>)
           IN  [NoStream EXCEPT
                  !.top_url = top.url, !.found = TRUE, !.ext = top.ext,
                  !.mime_type = IF is_hls THEN "application/vnd.apple.mpegurl"
                                ELSE _infer_mime_type(top.ext),
                  !.protocol = IF proto # "" THEN proto
                               ELSE IF is_hls THEN "m3u8" ELSE "https",
                  !.is_hls = is_hls]
      ELSE NoStream

select_stream(fmts, top) ==
  /\ sel.pc = "new"
  /\ sel' = [pc |-> "selected", formats |-> fmts, top |-> top,
             result |-> _select_best_audio_stream(fmts, top)]
  /\ UNCHANGED <<relayvars, rwvars, ttlvars, running, plvars, sivars, srch,
                 cavars>>

NextSelect ==
  \E fmts \in FormatLists, top \in TopLevels : select_stream(fmts, top)

SpecSelect == Init /\ [][NextSelect]_vars

\* ------------------------------------------------- cached service methods
\* RedisCache.get_cache and the caller's truth test of what it returns
CacheHit(store, key) == store[key] # NoEntry

\* RedisCache.set_cache(key, value, expire) at time t
set_cache(store, key, value, expire, t) ==
  [store EXCEPT ![key] = [value |-> value, expires_at |-> t + expire]]

\* a falsy continuation: None or the empty string
NoContinuation(continuation) == continuation = NoCont \/ continuation = <<>>

\* the response_data of search_songs: the formatted results and the token
FormatResults(found) ==
  [results |-> [i \in 1..Len(found.results) |->
                  [video_id |-> found.results[i]]],
   continuation |-> found.continuation]

get_song_details_stores_none(store, t, video_id, song) ==
  IF CacheHit(store, SongKey(video_id))
  THEN [returned |-> store[SongKey(video_id)].value, kv |-> store,
        calls |-> 0]
  ELSE [returned |-> IF song = NoSong THEN song
                     ELSE [video_id |-> video_id, title |-> song.title],
        kv |-> set_cache(store, SongKey(video_id),
                         IF song = NoSong THEN song
                         ELSE [video_id |-> video_id, title |-> song.title],
                         CACHE_EXPIRE_SECONDS, t),
        calls |-> 1]

\* MusicService.get_song_details: what it returns, the cache after the
\* call and the calls of ytmusic_client it made
get_song_details(store, t, video_id, song) ==
  IF CacheHit(store, SongKey(video_id))
  THEN [returned |-> store[SongKey(video_id)].value, kv |-> store,
        calls |-> 0]
  ELSE IF song = NoSong
  THEN [returned |-> NoSong, kv |-> store, calls |-> 1]
  ELSE LET formatted_song == [video_id |-> video_id, title |-> song.title]
       IN  [returned |-> formatted_song,
            kv |-> set_cache(store, SongKey(video_id), formatted_song,
                             CACHE_EXPIRE_SECONDS, t),
            calls |-> 1]

\* MusicService.search_songs with n upstream results for the query
search_songs(store, t, query, limit, continuation, n) ==
  IF NoContinuation(continuation) /\ CacheHit(store, SearchKey(query, limit))
  THEN [returned |-> store[SearchKey(query, limit)].value, kv |-> store,
        calls |-> 0]
  ELSE LET response_data == FormatResults(search(n, limit, continuation))
       IN  [returned |-> response_data,
            kv |-> IF NoContinuation(continuation)
                   THEN set_cache(store, SearchKey(query, limit),
                                  response_data, CACHE_EXPIRE_SECONDS, t)
                   ELSE store,
            calls |-> 1]

call_get_song_details(video_id, song) ==
  /\ LET g == get_song_details(kv, now, video_id, song)
     IN  /\ kv' = g.kv
         /\ ca' = [fn |-> "get_song_details", key |-> SongKey(video_id),
                   continuation |-> NoCont,
                   hit |-> CacheHit(kv, SongKey(video_id)),
                   calls |-> g.calls, returned |-> g.returned]
  /\ UNCHANGED <<relayvars, rwvars, ttlvars, running, plvars, sivars, srch, sel>>

call_search_songs(query, limit, continuation, n) ==
  /\ LET g == search_songs(kv, now, query, limit, continuation, n)
     IN  /\ kv' = g.kv
         /\ ca' = [fn |-> "search_songs", key |-> SearchKey(query, limit),
                   continuation |-> continuation,
                   hit |-> CacheHit(kv, SearchKey(query, limit)),
                   calls |-> g.calls, returned |-> g.returned]
  /\ UNCHANGED <<relayvars, rwvars, ttlvars, running, plvars, sivars, srch, sel>>

call_get_stream_info(video_id, resolved) ==
  /\ LET g == get_stream_info(cache, video_id, resolved)
     IN  /\ cache' = g.cache
         /\ expires' = IF (g.calls = 1 /\ g.info # NoInfo)
                          \/ (g.calls = 0 /\ g.info.is_hls)
                       THEN [expires EXCEPT ![video_id] = now + TTL]
                       ELSE expires
         /\ ca' = [fn |-> "get_stream_info", key |-> "stream",
                   continuation |-> NoCont,
                   hit |-> cache[video_id] # NoInfo,
                   calls |-> g.calls, returned |-> g.info]
  /\ UNCHANGED <<req, history, player, now, resolved_at, served_age, rwvars,
                 running, plvars, sivars, srch, kv, sel>>

\* time passes; Redis drops every entry whose expiry is reached
cache_tick(d) ==
  /\ now + d <= MaxTime
  /\ now' = now + d
  /\ cache' = [v \in VideoIds |->
                IF cache[v] # NoInfo /\ expires[v] <= now + d
                THEN NoInfo ELSE cache[v]]
  /\ kv' = [k \in CacheKeys |->
             IF kv[k] # NoEntry /\ kv[k].expires_at <= now + d
             THEN NoEntry ELSE kv[k]]
  /\ UNCHANGED <<expires, resolved_at, served_age, req, history, player,
                 rwvars, running, plvars, sivars, srch, ca, sel>>

\* upstream result counts of the cached searches
CachedCounts == {0, 3}

CacheTickSteps == {3600}

NextCache ==
  \/ \E v \in CachedSongIds, song \in SongAnswers :
       call_get_song_details(v, song)
  \/ \E q \in Queries, l \in CachedLimits,
        c \in {NoCont, <<>>, <<"1">>}, n \in CachedCounts :
       call_search_songs(q, l, c, n)
  \/ \E v \in VideoIds, resolved \in ResolverResults :
       call_get_stream_info(v, resolved)
  \/ \E d \in CacheTickSteps : cache_tick(d)

SpecCache == Init /\ [][NextCache]_vars

\* ---------------------------------------------------- song info service
\* the metadata providers the service constructs, in the order it names
\* them: primary, fallback
ProviderChain == <<"gemini_api", "gemini_web">>

\* _build_response: the singer is the artist hint unless the metadata names
\* one; the other fields are filled from the metadata only
build_response(ai_data, artist_hint, photo) ==
  LET default == [singer |-> IF artist_hint # "" THEN artist_hint
                             ELSE "Unknown Artist",
                  photo |-> photo, music_director |-> "", year |-> ""]
  IN  IF ai_data = NoMeta THEN default
      ELSE [default EXCEPT
              !.singer = IF ai_data.singer # "" THEN ai_data.singer ELSE @,
              !.music_director = ai_data.music_director,
              !.year = ai_data.year]

\* SongInfoService.__init__: the provider is chosen once, by whether
\* GOOGLE_AI_API_KEY is set
song_info_service_init(api_key_set) ==
  /\ si.pc = "new"
  /\ si' = [si EXCEPT !.pc = "idle", !.use_web_automation = ~api_key_set]
  /\ UNCHANGED <<song_cache, relayvars, rwvars, ttlvars, running, plvars, srch,
                 cavars, sel>>

\* get_song_info_async up to the call of the provider
get_song_info_async(video_id, artist) ==
  /\ si.pc = "idle"
  /\ si' = IF song_cache[video_id] # NoSongInfo
           THEN [si EXCEPT !.pc = "done", !.video_id = video_id,
                           !.artist = artist, !.tried = <<>>,
                           !.ai_data = NoMeta, !.built = FALSE,
                           !.response = song_cache[video_id]]
           ELSE [si EXCEPT !.pc = "provider", !.video_id = video_id,
                           !.artist = artist, !.ai_data = NoMeta,
                           !.built = FALSE, !.response = NoSongInfo,
                           !.tried = IF si.use_web_automation
                                     THEN <<"gemini_web">>
                                     ELSE <<"gemini_api">>]
  /\ UNCHANGED <<song_cache, relayvars, rwvars, ttlvars, running, plvars, srch,
                 cavars, sel>>

\* the provider returns (None when it fails); the response is built from
\* what it returned and stored for SONG_INFO_CACHE_TTL
provider_returns(ai_data, photo) ==
  /\ si.pc = "provider"
  /\ LET response == build_response(ai_data, si.artist, photo)
     IN  /\ si' = [si EXCEPT !.pc = "done", !.ai_data = ai_data,
                             !.built = TRUE, !.response = response]
         /\ song_cache' = [song_cache EXCEPT ![si.video_id] = response]
  /\ UNCHANGED <<relayvars, rwvars, ttlvars, running, plvars, srch,
                 cavars, sel>>

song_info_returned ==
  /\ si.pc = "done"
  /\ si' = [NewSongInfoService EXCEPT
              !.pc = "idle", !.use_web_automation = si.use_web_automation]
  /\ UNCHANGED <<song_cache, relayvars, rwvars, ttlvars, running, plvars, srch,
                 cavars, sel>>

NextSongInfo ==
  \/ \E api_key_set \in BOOLEAN : song_info_service_init(api_key_set)
  \/ \E v \in SongVideoIds, artist \in ArtistHints :
       get_song_info_async(v, artist)
  \/ \E ai_data \in AiData, photo \in BOOLEAN :
       provider_returns(ai_data, photo)
  \/ song_info_returned

SpecSongInfo == Init /\ [][NextSongInfo]_vars

\* ------------------------------------------- the descriptor cache in time
\* the clock advances in steps of five or ten minutes
TickSteps == {300, 600}

InitTtl ==
  /\ Init

\* MusicService.get_stream_info at time now: a hit returns the entry and,
\* for an HLS descriptor, stores it again with a new expiry; a miss stores
\* what the resolver answers
timed_get_stream_info(video_id, resolved) ==
  LET g == get_stream_info(cache, video_id, resolved)
  IN  /\ cache' = g.cache
      /\ IF g.calls = 0
         THEN /\ expires' = IF g.info.is_hls
                            THEN [expires EXCEPT ![video_id] = now + TTL]
                            ELSE expires
              /\ resolved_at' = resolved_at
              /\ served_age' = now - resolved_at[video_id]
         ELSE IF g.info # NoInfo
         THEN /\ expires' = [expires EXCEPT ![video_id] = now + TTL]
              /\ resolved_at' = [resolved_at EXCEPT ![video_id] = now]
              /\ served_age' = 0
         ELSE UNCHANGED <<expires, resolved_at, served_age>>
      /\ UNCHANGED <<now, req, history, player, rwvars, running, othervars>>

\* time passes; Redis drops the entries whose expiry is reached
tick(d) ==
  /\ now + d <= MaxTime
  /\ now' = now + d
  /\ cache' = [v \in VideoIds |->
                IF cache[v] # NoInfo /\ expires[v] <= now + d
                THEN NoInfo ELSE cache[v]]
  /\ UNCHANGED <<expires, resolved_at, served_age, req, history, player,
                 rwvars, running, othervars>>

NextTtl ==
  \/ \E v \in VideoIds, resolved \in ResolverResults :
       timed_get_stream_info(v, resolved)
  \/ \E d \in TickSteps : tick(d)

SpecTtl == InitTtl /\ [][NextTtl]_vars

\* ------------------------------------------------ two requests at a time
\* two connections served by the one event loop
ConcConnections == {1, 2}

ConcTokens == {NoToken, "jwt-alice"}

ConcResolverResults == ResolverResults \ {NoInfo}

ConcResponses == {Resp200Chunked, Resp403}

InitConc ==
  /\ req = [r \in ConcConnections |-> IdleReq]
  /\ cache = [v \in VideoIds |-> NoInfo]
  /\ history = <<>>
  /\ player = NoPlaylist
  /\ running = 0
  /\ now = 0
  /\ expires = [v \in VideoIds |-> 0]
  /\ resolved_at = [v \in VideoIds |-> 0]
  /\ served_age = 0
  /\ playlist_text = <<>>
  /\ rewritten_lines = <<>>
  /\ rewritten_playlist = <<>>
  /\ rw_pc = "off"
  /\ InitOther

\* the event loop enters proxy_stream for a request: the loop runs this
\* handler, and nothing else, until the handler reaches its first await
proxy_stream_enter(r, video_id, range_header, token) ==
  /\ running = 0 /\ req[r].pc = "idle"
  /\ get_current_user(token) # 0 => Len(history) < MaxHistory
  /\ req' = [req EXCEPT ![r] =
               [IdleReq EXCEPT !.kind = "proxy", !.video_id = video_id,
                               !.range = range_header, !.token = token,
                               !.user = get_current_user(token),
                               !.pc = "resolving"]]
  /\ running' = r
  /\ UNCHANGED <<cache, history, player, rwvars, ttlvars, othervars>>

\* get_stream_info and track_playback return (they are plain calls: Redis,
\* yt_dlp and the database are waited for inside them) and the handler
\* awaits its first upstream GET, which frees the loop
proxy_stream_await(r, resolved, db_ok) ==
  /\ running = r /\ req[r].pc = "resolving"
  /\ proxy_stream_sync(r, req[r].video_id, req[r].range, req[r].token,
                       resolved, db_ok)
  /\ running' = 0
  /\ UNCHANGED <<player, rwvars, ttlvars, othervars>>

\* the steps of request r that the event loop can run when it is free
Resume(r) ==
  /\ running = 0
  /\ \/ \E resp \in ConcResponses : proxy_stream_response(r, resp)
     \/ \E resp \in ConcResponses : stream_generator_open(r, resp)
     \/ stream_generator_chunk(r)
     \/ stream_generator_end(r)
     \/ \E resp \in ConcResponses : segment_proxy_response(r, resp)
     \/ \E resp \in ConcResponses : stream_segment_open(r, resp)
     \/ stream_segment_chunk(r)
     \/ stream_segment_end(r)

NextConc ==
  \/ \E r \in DOMAIN req, v \in VideoIds, tok \in ConcTokens :
       proxy_stream_enter(r, v, Absent, tok)
  \/ \E r \in DOMAIN req, resolved \in ConcResolverResults :
       proxy_stream_await(r, resolved, TRUE)
  \/ \E r \in DOMAIN req, v \in VideoIds :
       running = 0 /\ segment_proxy(r, v, DirectUrl, <<>>, Absent)
  \/ \E r \in DOMAIN req : Resume(r)
  \/ \E r \in DOMAIN req : running = 0 /\ request_closed(r)

SpecConc == InitConc /\ [][NextConc]_vars

\* the runtime does not leave the generator of a gone client suspended
Cancellation == WF_vars(\E r \in DOMAIN req : stream_cancelled(r))

SpecLive == Spec /\ Cancellation

RwBase == SegmentBase(<<"v">>)

\* the rewriter applied to every playlist text of at most MaxLen characters
InitRewrite ==
  /\ req = [r \in Connections |-> IdleReq]
  /\ cache = [v \in VideoIds |-> NoInfo]
  /\ history = <<>>
  /\ player = NoPlaylist
  /\ running = 0
  /\ now = 0
  /\ expires = [v \in VideoIds |-> 0]
  /\ resolved_at = [v \in VideoIds |-> 0]
  /\ served_age = 0
  /\ playlist_text \in Texts
  /\ rewritten_lines = <<>>
  /\ rewritten_playlist = <<>>
  /\ rw_pc = "fetched"
  /\ InitOther

Rewrite ==
  /\ rw_pc = "fetched"
  /\ rewritten_lines' = RewriteLines(RwBase, playlist_text)
  /\ rewritten_playlist' = RewritePlaylist(RwBase, playlist_text)
  /\ rw_pc' = "rewritten"
  /\ UNCHANGED <<playlist_text, relayvars, ttlvars, running, othervars>>

NextRewrite == Rewrite

SpecRewrite == InitRewrite /\ [][NextRewrite]_vars

\* --------------------------------------------------- claims on the relay
Relayed(q) == q.kind \in {"proxy", "segment"}

\* an upstream GET of the request answered with a status other than 200/206
BadStatus(resp) == resp.status # 0 /\ ~StatusOk(resp.status)

\* C1: when an upstream GET of a request (the first fetch or the streaming
\* fetch) answers with a status other than 200 or 206, the client receives
\* exactly that status, never a 200/206.
C1_UpstreamStatusSurfaced ==
  \A r \in DOMAIN req :
    Relayed(req[r]) =>
      /\ BadStatus(req[r].first) => req[r].status = req[r].first.status
      /\ BadStatus(req[r].second) => req[r].status = req[r].second.status

\* C2: once an upstream GET of a request has failed, the request issues no
\* further upstream GET and no further resolver call.
C2_NoRetry ==
  [][\A r \in DOMAIN req :
       req[r].failed =>
         \/ req'[r] = IdleReq
         \/ /\ req'[r].gets = req[r].gets
            /\ req'[r].resolves = req[r].resolves]_vars

\* a request whose streaming GET failed, after two upstream GETs
C2_Witness ==
  \E r \in DOMAIN req :
    /\ req[r].failed /\ req[r].pc = "done"
    /\ Len(req[r].gets) = 2 /\ req[r].resolves = 1

\* a finished GET /stream/proxy without Range whose descriptor is direct and
\* whose upstream answered 200 with a non-playlist body, no transport error
DirectNoRange(q) ==
  /\ q.kind = "proxy" /\ q.pc = "done"
  /\ q.info # NoInfo /\ ~q.info.is_hls
  /\ q.range = Absent
  /\ q.first.status = 200 /\ ~IsMpegurl(q.first.ctype)
  /\ ~q.exc

\* C3: for a direct (non-HLS) upstream, a GET /stream/proxy/{id} without a
\* Range header returns status 200 and a complete body equal to the body of
\* an upstream response of that request, whatever the upstream does between
\* the relay's fetches.
C3_BodyIdentical ==
  \A r \in DOMAIN req :
    DirectNoRange(req[r]) =>
      /\ req[r].status = 200
      /\ req[r].out = "complete"
      /\ \/ req[r].body = Flatten(req[r].first.chunks)
         \/ /\ StatusOk(req[r].second.status)
            /\ req[r].body = Flatten(req[r].second.chunks)

\* C4 as stated: the client's Range header is on every upstream GET of the
\* request exactly as sent (none when the client sent none), and a request
\* with a Range header that the upstream serves is answered with 206 and the
\* upstream's Content-Range.
C4_AsStated ==
  \A r \in DOMAIN req :
    Relayed(req[r]) =>
      /\ \A i \in 1..Len(req[r].gets) : req[r].gets[i].range = req[r].range
      /\ (req[r].range # Absent /\ StatusOk(req[r].first.status)) =>
           /\ req[r].status = 206
           /\ req[r].headers.crange = req[r].first.crange

\* C4 amended: a non-empty Range header is on every upstream GET of the
\* request exactly as sent, no Range header goes upstream when the client
\* sent none or an empty one, and a request that the upstream serves is
\* answered with the status of the first upstream response (206 exactly
\* when that response is a 206) and with its Content-Range.
C4_RangeForwarded ==
  \A r \in DOMAIN req :
    Relayed(req[r]) =>
      /\ \A i \in 1..Len(req[r].gets) :
           req[r].gets[i].range =
             (IF req[r].range = "" THEN Absent ELSE req[r].range)
      /\ StatusOk(req[r].first.status) =>
           /\ req[r].status = req[r].first.status
           /\ req[r].headers.crange = req[r].first.crange

\* a range request served with 206 after two upstream GETs with the Range
C4_Witness ==
  \E r \in DOMAIN req :
    /\ req[r].range = "bytes=0-0"
    /\ Len(req[r].gets) = 2 /\ req[r].gets[2].range = "bytes=0-0"
    /\ req[r].status = 206 /\ req[r].headers.crange = "bytes 0-0/2"

\* C5 as stated: on a successful relay the client response carries the
\* upstream's Content-Length, Content-Range, Accept-Ranges and Content-Type
\* and the upstream's status.
C5_AsStated ==
  \A r \in DOMAIN req :
    (Relayed(req[r]) /\ StatusOk(req[r].first.status)) =>
      /\ req[r].headers.clen = req[r].first.clen
      /\ req[r].headers.crange = req[r].first.crange
      /\ req[r].headers.aranges = req[r].first.aranges
      /\ req[r].headers.ctype = req[r].first.ctype
      /\ req[r].status = req[r].first.status

DefaultMediaType(q) == IF q.kind = "proxy" THEN "audio/webm" ELSE "video/mp2t"

\* the first upstream response is relayed as bytes, not rewritten
ByteRelay(q) ==
  /\ Relayed(q) /\ StatusOk(q.first.status)
  /\ ~(q.kind = "proxy" /\ IsMpegurl(q.first.ctype))

\* C5 amended: on a successful byte relay the client response carries the
\* Content-Length and Content-Range of the first upstream response (none
\* where that response has none), its Content-Type or, when it has none,
\* audio/webm (proxy) or video/mp2t (segment), the fixed value
\* "Accept-Ranges: bytes" whatever the upstream's Accept-Ranges, and the
\* status of the first upstream response.
C5_HeadersForwarded ==
  \A r \in DOMAIN req :
    ByteRelay(req[r]) =>
      /\ req[r].headers.clen = req[r].first.clen
      /\ req[r].headers.crange = req[r].first.crange
      /\ req[r].headers.aranges = "bytes"
      /\ req[r].headers.ctype =
           (IF req[r].first.ctype # Absent THEN req[r].first.ctype
            ELSE DefaultMediaType(req[r]))
      /\ req[r].status = req[r].first.status

\* a relayed 200 with the upstream's Content-Length and Content-Type, and
\* "bytes" where the upstream said "Accept-Ranges: none"
C5_Witness ==
  \E r \in DOMAIN req :
    /\ ByteRelay(req[r]) /\ req[r].out = "complete"
    /\ req[r].first = Resp200
    /\ req[r].headers.clen = 2 /\ req[r].headers.ctype = "audio/webm"
    /\ req[r].headers.aranges = "bytes"

\* C6: a transport exception or timeout of an upstream call, at whatever
\* point of the request it is raised, ends in an HTTP 500 to the client.
C6_ExceptionIs500 ==
  \A r \in DOMAIN req :
    (Relayed(req[r]) /\ req[r].exc) => req[r].status = 500

\* C10: a segment request made from a line of a rewritten playlist carries
\* in u the absolute URL the upstream line referred to, and its upstream GET
\* goes to that location.
C10_SegmentReachesOrigin ==
  \A r \in DOMAIN req :
    (req[r].kind = "segment" /\ req[r].ref # <<>>) =>
      /\ req[r].u = req[r].ref
      /\ req[r].gets # <<>>
      /\ req[r].gets[1].url = req[r].ref

\* C11: when the upstream content is an HLS playlist, the rewriter works on
\* the full playlist body whatever Range header the client sent, and the
\* rewritten playlist goes out as application/vnd.apple.mpegurl with a
\* Content-Length that is its own, not the upstream's.
C11_FullPlaylistRewritten ==
  \A r \in DOMAIN req :
    (req[r].kind = "proxy" /\ StatusOk(req[r].first.status)
       /\ IsMpegurl(req[r].first.ctype)) =>
      /\ req[r].body = RewritePlaylist(SegmentBase(req[r].video_id), Manifest)
      /\ req[r].headers.ctype = "application/vnd.apple.mpegurl"
      /\ req[r].headers.clen = Len(req[r].body)

C13_OptionsIs204 ==
  [][\A r \in DOMAIN req :
       (req[r].pc = "idle" /\ req'[r].kind \in OptionsKinds) =>
         /\ req'[r].status = 204
         /\ req'[r].body = <<>>
         /\ req'[r].headers.allow_methods = "GET, OPTIONS"
         /\ req'[r].headers.allow_headers = "Range, Origin, Accept, Content-Type"
         /\ req'[r].gets = <<>> /\ req'[r].resolves = 0
         /\ cache' = cache /\ history' = history]_vars

\* C14: when the resolver yields no descriptor, GET /stream/proxy/{id} and
\* GET /stream/info/{id} answer 404 "Stream info not found" at once, issue
\* no upstream GET, add no history row and leave the cache without an entry
\* for the identifier.
C14_NotFoundIs404 ==
  [][\A r \in DOMAIN req :
       (req'[r].kind \in {"proxy", "info"} /\ req'[r].info = NoInfo) =>
         /\ req'[r].pc = "done" /\ req'[r].status = 404
         /\ req'[r].detail = "Stream info not found"
         /\ req'[r].gets = <<>>
         /\ req[r].pc = "idle" =>
              /\ req'[r].resolves = 1
              /\ history' = history
              /\ cache' = cache /\ cache'[req'[r].video_id] = NoInfo]_vars

\* the info route answers 404 to a logged-in user whose earlier playback
\* was saved: the history still holds that one row only
C14_Witness ==
  \E r \in DOMAIN req :
    /\ req[r].kind = "info" /\ req[r].info = NoInfo /\ req[r].status = 404
    /\ req[r].token = "jwt-alice" /\ req[r].user = 1
    /\ Len(history) = 1 /\ history[1].user_id = 1

\* the error class of a failed relay request, from what happened to it
ErrorClass(q) ==
  IF q.kind = "proxy" /\ q.info = NoInfo THEN "not found"
  ELSE IF q.exc THEN "failed"
  ELSE "unavailable"

FixedMessage(kind, class) ==
  CASE class = "not found" -> "Stream info not found"
    [] kind = "proxy" /\ class = "unavailable" -> "Stream unavailable"
    [] kind = "proxy" /\ class = "failed" -> "Stream proxy failed"
    [] kind = "segment" /\ class = "unavailable" -> "Segment unavailable"
    [] kind = "segment" /\ class = "failed" -> "Segment proxy failed"

\* an error response went to the client
ErrorSent(q) == q.pc = "done" /\ q.out = "complete" /\ ~StatusOk(q.status)

\* C15: the error body of a relay request is the fixed message of its
\* endpoint and error class, whatever the upstream URL, the upstream
\* response and the exception were: two requests failing in the same class
\* get the same body, and a request that sent no error response sent no
\* error detail.
C15_FixedErrorMessages ==
  \A r \in DOMAIN req :
    Relayed(req[r]) =>
      req[r].detail =
        IF ErrorSent(req[r])
        THEN FixedMessage(req[r].kind, ErrorClass(req[r]))
        ELSE ""

\* a proxy request refused upstream with 403 and answered with the fixed
\* message of that class
C15_Witness ==
  \E r \in DOMAIN req :
    /\ req[r].kind = "proxy" /\ req[r].first = Resp403
    /\ ErrorSent(req[r]) /\ req[r].detail = "Stream unavailable"

\* C20: the history changes only by one row appended by a request that
\* starts with the token of a user of the users table, and the row carries
\* that user's id and the request's video id; a request with no token, a
\* token that does not decode or the token of an unknown user adds no row.
C20_HistoryOnlyForUsers ==
  [][/\ history' # history =>
          \E r \in DOMAIN req :
            /\ req[r].pc = "idle" /\ req'[r].pc # "idle"
            /\ req'[r].token = "jwt-alice" /\ req'[r].user = UserTable["alice"]
            /\ history' = Append(history, [user_id |-> UserTable["alice"],
                                           video_id |-> req'[r].video_id])
     /\ \A r \in DOMAIN req :
          (req[r].pc = "idle" /\ req'[r].pc # "idle"
             /\ req'[r].token \in {NoToken, "garbage", "jwt-nobody"}) =>
            history' = history]_vars

\* POST /play by the logged-in user saved a row, and a later POST /play
\* with the token of an unknown user left the history alone
C20_Witness ==
  \E r \in DOMAIN req :
    /\ req[r].kind = "play" /\ req[r].token = "jwt-nobody"
    /\ req[r].user = 0 /\ req[r].status = 200
    /\ history = <<[user_id |-> 1, video_id |-> req[r].video_id]>>

\* C17: every descriptor get_stream_info returns was produced by the
\* resolver at most 900 seconds before the call.
C17_ServedWithinTtl == served_age <= TTL

InFlight(q) == q.pc \notin {"idle", "done"}

\* the event loop leaves the synchronous part of proxy_stream for r
LeavesSync(r) == req[r].pc = "resolving" /\ req'[r].pc # "resolving"

InStep(q) ==
  q.kind = "proxy"
    /\ q.pc \in {"resolving", "await_first", "await_stream", "streaming"}

\* a request waiting at an await for the event loop to resume it
Suspended(q) == q.pc \in {"await_first", "await_stream", "streaming"}

\* C19: while one proxy request is in any of its steps, another request
\* that waits at an await can take its next step.
C19_NoStepBlocks ==
  \A r, o \in DOMAIN req :
    (r # o /\ InStep(req[r]) /\ Suspended(req[o])) => ENABLED Resume(o)

\* session s takes up a playlist request in this step
PlStarts(s) == pl[s].pc = "idle" /\ pl'[s].pc # "idle"

\* C21: get, update, delete, add-song and remove-song on a playlist of
\* another user answer 404 and leave the playlist row and the song rows as
\* they were; a caller who is not authenticated gets 401 from every
\* playlist route and changes nothing.
C21_OwnershipRequired ==
  [][\A s \in Sessions :
       PlStarts(s) =>
         /\ pl'[s].user = 0 =>
              /\ pl'[s].status = 401 /\ pl'[s].pc = "done"
              /\ playlists' = playlists /\ playlist_songs' = playlist_songs
         /\ (pl'[s].user # 0
              /\ pl'[s].op \in {"get", "update", "delete", "add", "remove"}
              /\ playlists[pl'[s].playlist_id] # NoRow
              /\ playlists[pl'[s].playlist_id].user_id # pl'[s].user) =>
              /\ pl'[s].status = 404 /\ pl'[s].pc = "done"
              /\ playlists' = playlists
              /\ playlist_songs' = playlist_songs]_vars

\* bob asked to delete alice's playlist, which holds a song, and got 404
C21_Witness ==
  \E s \in Sessions :
    /\ pl[s].op = "delete" /\ pl[s].user = 2 /\ pl[s].status = 404
    /\ playlists[pl[s].playlist_id].user_id = 1
    /\ SongRows(playlist_songs, pl[s].playlist_id, "a") # {}

\* C29: the playlist_songs table holds at most one row per playlist and
\* video id, whatever add and remove calls were made and however the
\* existence query and the insert of two requests interleave.
C29_NoDuplicateSong ==
  \A p \in PlaylistIds, v \in SongIds :
    Cardinality(SongRows(playlist_songs, p, v)) <= 1

\* C22: the default response is built only after every provider of the
\* chain was asked, in order, and returned nothing.
C22_FallbackChain ==
  (si.pc = "done" /\ si.built /\ si.ai_data = NoMeta) =>
    si.tried = ProviderChain

\* the smaller of two numbers
Min(a, b) == IF a < b THEN a ELSE b

\* C23: the page a client gets for the token of page p and limit L is the
\* upstream results p*L+1 .. (p+1)*L, as far as the upstream list goes; so
\* the pages a client gets by following the tokens from its first request
\* are, concatenated, a prefix of the upstream list with no result twice.
C23_PagesAreSlices ==
  srch.pc = "paging" =>
    /\ srch.results =
         SubSeq(Upstream(srch.n), srch.page * srch.limit + 1,
                Min((srch.page + 1) * srch.limit, srch.n))
    /\ srch.seen = SubSeq(Upstream(srch.n), 1, Len(srch.seen))

\* C30: following the tokens ends: every page that comes with a token
\* holds limit results the client had not seen, so a client that was given
\* a token after k pages has seen k * limit of the n upstream results.
C30_PagingTerminates ==
  (srch.pc = "paging" /\ srch.continuation # NoCont) =>
    srch.pages * srch.limit <= srch.n

\* the cache after one entry was stored at time now
Stored(store, key, value, expire) ==
  [store EXCEPT ![key] = [value |-> value, expires_at |-> now + expire]]

\* C24: get_song_details, get_stream_info and search_songs without a
\* continuation token return the cached value on a hit, call no client and
\* leave the entries alone; on a miss they call the client once and store
\* what was found under the key of the call, with the TTL of the method;
\* nothing is stored when the client found nothing, and search_songs with a
\* continuation token calls the client and leaves the cache alone.
C24_CacheAside ==
  [][now' = now =>
       /\ ca'.fn = "get_song_details" =>
            IF kv[ca'.key] # NoEntry
            THEN ca'.calls = 0 /\ ca'.returned = kv[ca'.key].value /\ kv' = kv
            ELSE /\ ca'.calls = 1
                 /\ kv' = IF ca'.returned = NoSong THEN kv
                          ELSE Stored(kv, ca'.key, ca'.returned,
                                      CACHE_EXPIRE_SECONDS)
       /\ ca'.fn = "search_songs" =>
            IF ~NoContinuation(ca'.continuation)
            THEN ca'.calls = 1 /\ kv' = kv
            ELSE IF kv[ca'.key] # NoEntry
            THEN ca'.calls = 0 /\ ca'.returned = kv[ca'.key].value /\ kv' = kv
            ELSE /\ ca'.calls = 1
                 /\ kv' = Stored(kv, ca'.key, ca'.returned,
                                 CACHE_EXPIRE_SECONDS)
       /\ ca'.fn = "get_stream_info" =>
            \A v \in VideoIds :
              IF cache[v] # NoInfo
              THEN ca'.calls = 0 /\ ca'.returned = cache[v]
                   /\ cache' = cache
              ELSE /\ ca'.calls = 1
                   /\ cache' = [cache EXCEPT ![v] = ca'.returned]
                   /\ ca'.returned # NoInfo => expires'[v] = now + TTL
                   /\ ca'.returned = NoInfo => expires' = expires
       /\ \A k \in CacheKeys : kv'[k].value # NoSong]_vars

\* a search with a continuation token called the client and left alone
\* the entry an earlier search without a token had stored; a song entry is
\* stored as well
C24_Witness ==
  /\ ca.fn = "search_songs" /\ ca.continuation = <<"1">> /\ ca.calls = 1
  /\ kv[ca.key] # NoEntry /\ kv[ca.key].value # ca.returned
  /\ kv[SongKey("s1")] # NoEntry

\* the direct audio-only formats of a list, and its HLS audio-only formats
DirectAudio(fmts) ==
  {i \in 1..Len(fmts) :
     fmts[i].vcodec = "none" /\ fmts[i].protocol \in {"http", "https"}}

HlsAudio(fmts) ==
  {i \in 1..Len(fmts) :
     fmts[i].vcodec = "none" /\ fmts[i].protocol \in {"m3u8", "m3u8_native"}}

ExtRank(f) ==
  IF lower(f.ext) = "m4a" THEN 2 ELSE IF lower(f.ext) = "webm" THEN 1 ELSE 0

BitRate(f) == IF f.abr # 0 THEN f.abr ELSE f.tbr

\* C25: with a direct audio-only format in the list the result is one of
\* them, not HLS, of the best extension rank and then the highest bitrate;
\* an HLS format (is_hls, mime application/vnd.apple.mpegurl, highest
\* bitrate) is returned only when no direct one exists, the top-level url
\* only when neither exists, and None exactly when there is no url at all
C25_PrefersDirect ==
  sel.pc = "selected" =>
    LET f == sel.formats
        D == DirectAudio(f)
        H == HlsAudio(f)
        r == sel.result
        FromFormats == r.found /\ r.top_url = <<>>
    IN  /\ D # {} =>
             /\ FromFormats /\ ~r.is_hls
             /\ \E i \in D :
                  /\ r.url = f[i].url
                  /\ \A j \in D :
                       \/ ExtRank(f[j]) < ExtRank(f[i])
                       \/ /\ ExtRank(f[j]) = ExtRank(f[i])
                          /\ BitRate(f[j]) <= BitRate(f[i])
        /\ (D = {} /\ H # {}) =>
             /\ FromFormats /\ r.is_hls
             /\ r.mime_type = "application/vnd.apple.mpegurl"
             /\ \E i \in H :
                  /\ r.url = f[i].url
                  /\ \A j \in H : BitRate(f[j]) <= BitRate(f[i])
        /\ (FromFormats /\ r.is_hls) => D = {}
        /\ (r.found /\ r.top_url # <<>>) <=>
             (D = {} /\ H = {} /\ sel.top.url # <<>>)
        /\ r.top_url # <<>> => r.top_url = sel.top.url
        /\ ~r.found <=> (D = {} /\ H = {} /\ sel.top.url = <<>>)

\* a list with an HLS format, a webm of 160 kbit/s and an m4a of 128 kbit/s
\* after it: the m4a was selected
C25_Witness ==
  /\ sel.pc = "selected"
  /\ HlsAudio(sel.formats) # {}
  /\ \E i, j \in DirectAudio(sel.formats) :
       /\ i < j
       /\ sel.formats[i].url = "f2" /\ sel.formats[j].url = "f1"
  /\ sel.result.url = "f1" /\ ~sel.result.is_hls

\* C26: a relay request whose upstream fetch fails leaves the cache as it
\* was; an entry changes only by running out (no request step removes or
\* replaces it), and a request that finds an entry is served that entry's
\* URL without a call of the resolver
C26_FailureKeepsDescriptor ==
  [][/\ \A r \in Connections :
          (req'[r].failed /\ ~req[r].failed) => cache' = cache
     /\ \A v \in VideoIds :
          cache[v] # NoInfo =>
            \/ cache'[v] = cache[v]
            \/ cache'[v] = NoInfo /\ req' = req
     /\ \A r \in Connections :
          (/\ req[r].pc = "idle" /\ req'[r].kind = "proxy"
           /\ cache[req'[r].video_id] # NoInfo) =>
            /\ req'[r].resolves = 0
            /\ req'[r].info.url = cache[req'[r].video_id].url
            /\ req'[r].gets[1].url = cache[req'[r].video_id].url]_vars

\* a request served from the cache whose upstream fetch failed, the entry
\* still in the cache
C26_Witness ==
  \E r \in Connections :
    /\ req[r].kind = "proxy" /\ req[r].failed /\ req[r].pc = "done"
    /\ req[r].resolves = 0
    /\ ~StatusOk(req[r].status)
    /\ cache[req[r].video_id] # NoInfo
    /\ cache[req[r].video_id].url = req[r].gets[1].url

\* C27: a proxy request of an authenticated user whose descriptor resolves
\* appends exactly one history row (user, id) in the step that ends with the
\* first upstream GET going out, whatever its Range header and whatever rows
\* exist; a failed history write leaves the table as it was and the relay
\* goes on; no later step of a request (a failed fetch included) changes
\* the table
C27_HistoryRowPerRequest ==
  [][/\ \A r \in Connections, v \in VideoIds, rg \in Ranges, tok \in Tokens,
          resolved \in ResolverResults, db_ok \in BOOLEAN :
          (/\ proxy_stream(r, v, rg, tok, resolved, db_ok)
           /\ get_current_user(tok) # 0
           /\ req'[r].info # NoInfo) =>
            /\ history' =
                 IF db_ok
                 THEN Append(history, [user_id |-> get_current_user(tok),
                                       video_id |-> v])
                 ELSE history
            /\ req'[r].pc = "await_first"
            /\ req'[r].first = NoResp /\ Len(req'[r].gets) = 1
     /\ \A r \in Connections :
          (req[r].pc # "idle" /\ req'[r] # req[r]) => history' = history]_vars

\* a Range request of a user who already has a row for the song: a second
\* row was written, and both are there after the upstream fetch failed
C27_Witness ==
  \E r \in Connections :
    /\ req[r].kind = "proxy" /\ req[r].range # Absent /\ req[r].user # 0
    /\ req[r].failed /\ req[r].pc = "done"
    /\ Len(history) = 2
    /\ \A i \in 1..2 : history[i] = [user_id |-> req[r].user,
                                      video_id |-> req[r].video_id]

\* the relay responses that stream an upstream body through
Streamed(q) ==
  q.kind \in {"proxy", "segment"} /\ q.second # NoResp /\ StatusOk(q.status)

\* C28: the status, Content-Length and Content-Range a client of a streamed
\* relay response received are those of the upstream response the body is
\* read from, and a completed body has exactly Content-Length bytes
C28_MetadataDescribesBody ==
  \A r \in Connections :
    (Streamed(req[r]) /\ req[r].out = "complete") =>
      /\ req[r].status = req[r].second.status
      /\ req[r].headers.crange = req[r].second.crange
      /\ req[r].headers.clen # -1 => Len(req[r].body) = req[r].headers.clen

\* ------------------------------------------------ claims on the rewriter
IsBlank(line) == \A i \in 1..Len(line) : line[i] \in Whitespace

IsDirective(line) == startswith(line, <<"#">>)

UpstreamLines == splitlines(playlist_text)

C8_AsStated ==
  rw_pc = "rewritten" =>
    \A i \in 1..Len(UpstreamLines) :
      (~IsBlank(UpstreamLines[i]) /\ ~IsDirective(UpstreamLines[i]))
        => ParamU(rewritten_lines[i]) = UpstreamLines[i]

\* C8 amended: for every URI line (not blank, first non-whitespace character
\* not '#'), percent-decoding the u parameter of the rewritten line gives
\* the original line with its leading and trailing whitespace removed.
C8_RoundTripStripped ==
  rw_pc = "rewritten" =>
    \A i \in 1..Len(UpstreamLines) :
      (~IsBlank(UpstreamLines[i]) /\ ~IsDirective(lstrip(UpstreamLines[i])))
        => ParamU(rewritten_lines[i]) = strip(UpstreamLines[i])

\* a rewritten URI line with whitespace around it and a character quote()
\* has to escape
C8_Witness ==
  /\ rw_pc = "rewritten"
  /\ \E i \in 1..Len(UpstreamLines) :
       /\ IsRelayUrl(RwBase, rewritten_lines[i])
       /\ strip(UpstreamLines[i]) # UpstreamLines[i]
       /\ \E k \in 1..Len(strip(UpstreamLines[i])) :
            strip(UpstreamLines[i])[k] = "%"
       /\ ParamU(rewritten_lines[i]) = strip(UpstreamLines[i])

\* the playlists of the scenario: directive lines followed by URI lines, each
\* line terminated by a newline, no other whitespace
InScenarioClass(t) ==
  LET lines == splitlines(t)
  IN  /\ t # <<>>
      /\ t[Len(t)] = "\n"
      /\ \A i \in 1..Len(t) : t[i] \notin {" ", "\r", "\t"}
      /\ \A i \in 1..Len(lines) : lines[i] # <<>>
      /\ \E i \in 1..Len(lines) : ~IsDirective(lines[i])
      /\ \A i, j \in 1..Len(lines) :
           (i < j /\ ~IsDirective(lines[i])) => ~IsDirective(lines[j])

\* the playlist text with each URI line replaced and every newline kept
RECURSIVE TerminatedLines(_, _)
TerminatedLines(segment_base, lines) ==
  IF lines = <<>> THEN <<>>
  ELSE (IF IsDirective(Head(lines)) THEN Head(lines)
        ELSE segment_base \o QueryU \o quote(Head(lines)))
       \o <<"\n">> \o TerminatedLines(segment_base, Tail(lines))

\* C9: a playlist of directive lines followed by URI lines, each terminated
\* by a newline, is rewritten to the same text with each URI line replaced
\* by <segment-endpoint>?u=<encoded URI>, the newline of the last line
\* included.
C9_ScenarioText ==
  (rw_pc = "rewritten" /\ InScenarioClass(playlist_text)) =>
    rewritten_playlist = TerminatedLines(RwBase, splitlines(playlist_text))

====
